---- MODULE Spec2Model ----
(***************************************************************************)
(* Model of the browser-side cache and synchronisation engine:             *)
(*   - DataPreloader.parallelShardedLoad (bulk pipeline), in its two       *)
(*     versions: the two-stage pipeline with an in-function lock set       *)
(*     ("v11") and the three-stage pipeline with CacheManager partition    *)
(*     locks ("p2");                                                       *)
(*   - WebSocketSyncManager catch-up, push handling and reconnect logic;   *)
(*   - CacheManager metadata, record store and aggregate caches;           *)
(*   - the records query of the API (aliyun-fc/records.js, getRecords);    *)
(*   - DataPreloader.generateYearQuarterShards;                            *)
(*   - DataPreloader.incrementalParallelLoad with CacheManager.appendData. *)
(* JavaScript runs one task at a time: every action below is one           *)
(* run-to-next-await segment of an async function or one event handler.    *)
(***************************************************************************)
EXTENDS Integers, Sequences, FiniteSets, TLC

\* ---------------------------------------------------------------- bounds
NumShards == 3            \* shards (= quarterly partitions) of one bulk load
MaxShardSize == 2         \* records the server returns for one shard
BatchSize == 1            \* scaled MIN_BATCH_SIZE / OPTIMAL_BATCH_SIZE
MaxDownloadWorkers == 2   \* cap on the modelled download worker pool
MaxStorageWorkers == 2    \* cap on the modelled storage worker pool
MaxParseWorkers == 1      \* cap on the modelled parse worker pool
NumIds == 2               \* record identities of the allDataCache store
MaxVer == 1               \* payload versions of one record
MaxChangeLogId == 3       \* change-log ids the server hands out
MaxClock == 1             \* readings of Date.now()
MaxRuns == 2              \* catch-up runs that can overlap
MaxPending == 1           \* metadata transactions the page's own writes queue
MaxTotal == 2             \* cap on the metadata totalCount
MaxRejected == 1          \* write calls of the page that reject
MaxFailedMessages == 1    \* push messages whose handling fails
NumTimes == 3             \* start_time values of the satellite_records table
ManyRows == 30            \* rows that share one start_time in a full table
MaxMonth == 12            \* months 0..MaxMonth (0 = January of year 0) hold the dates
NumIncShards == 3         \* shards of one incremental load
MaxIncWorkers == 2        \* modelled storage workers of the incremental load
MinBatch == 2             \* scaled MIN_BATCH_SIZE of the incremental load
NumPlans == 2             \* plan_id values of the records on the wire
MaxCalls == 3             \* calls of checkAndPerformCatchup followed after a page start
MaxPages == 6             \* pages one run of fetchAllDataWithPagination is followed for
NumStartTimes == 2        \* instants the start_time of a record can name
MaxRawLen == 3            \* records of one shard response
MaxPayload == 3           \* payload versions of one record on the wire

\* ------------------------------------------------------ program constants
maxMissedHeartbeats == 3
STORAGE_WORKERS == 3
DOWNLOAD_WORKERS == 6
PARSE_WORKERS == 3
MAX_BROWSER_CONCURRENT == 6
defaultLimit == 50
maxLimit == 100
pageSize == 10000
maxEmptyPages == 5

Min(a, b) == IF a <= b THEN a ELSE b
Max(a, b) == IF a >= b THEN a ELSE b

Shards == 1..NumShards
\* generateYearQuarterShards emits one shard per calendar quarter, in time
\* order, each with its own partitionId: shard i routes to partition i.
Partitions == Shards

RECURSIVE SumTo(_, _)
SumTo(f, n) == IF n = 0 THEN 0 ELSE f[n] + SumTo(f, n - 1)

RECURSIVE SeqSum(_)
SeqSum(s) == IF s = <<>> THEN 0 ELSE Head(s) + SeqSum(Tail(s))

\* A record of shard i is identified by an integer that is also its
\* timestamp: later records have larger ids.
RecId(i, k) == (i - 1) * (MaxShardSize + 1) + k

\* partitionId = `${year}_Q${quarter}` of a time: the quarter that holds it.
\* Quarter i holds the timestamps RecId(i, 0) .. RecId(i, MaxShardSize).
partitionId(t) == ((t - 1) \div (MaxShardSize + 1)) + 1

\* The records endpoint orders by start_time DESC.
RECURSIVE ServerRecords(_, _)
ServerRecords(i, n) == IF n = 0 THEN <<>> ELSE <<RecId(i, n)>> \o ServerRecords(i, n - 1)

RECURSIVE Insert(_, _)
Insert(x, s) ==
    IF s = <<>> THEN <<x>>
    ELSE IF x < Head(s) THEN <<x>> \o s
    ELSE <<Head(s)>> \o Insert(x, Tail(s))

RECURSIVE SortAsc(_)
SortAsc(s) == IF s = <<>> THEN <<>> ELSE Insert(Head(s), SortAsc(Tail(s)))

\* preprocessRecords: normalise every record, then sort ascending by timestamp.
preprocessRecords(records) == SortAsc(records)

\* parseRecords (three-stage pipeline, normalize stage): canonical shape and
\* derived timestamp for every record of the batch, none dropped.
parseRecords(rawBatch) == rawBatch

calculateOptimalConcurrency(shardCount) ==
    IF shardCount <= 2 THEN shardCount
    ELSE IF shardCount <= 8 THEN MAX_BROWSER_CONCURRENT
    ELSE IF shardCount <= 20 THEN MAX_BROWSER_CONCURRENT
    ELSE 8

DownloadWorkerCount(v) ==
    IF v = "v11" THEN Min(calculateOptimalConcurrency(NumShards), MaxDownloadWorkers)
    ELSE Min(DOWNLOAD_WORKERS, MaxDownloadWorkers)
StorageWorkerCount == Min(STORAGE_WORKERS, MaxStorageWorkers)

ParseWorkerCount == Min(PARSE_WORKERS, MaxParseWorkers)

DW == 1..MaxDownloadWorkers
SW == 1..StorageWorkerCount
PW == 1..ParseWorkerCount

VARIABLES
    variant,           \* which parallelShardedLoad runs: "v11" or "p2"
    mainPc,            \* position of parallelShardedLoad itself
    index,             \* next shard to claim (0-based, as in the code)
    dl,                \* download workers: [pc, shard]
    sw,                \* storage workers: [pc, part, batch]
    pw,                \* parse workers (p2): "new" / "wait" / "done"
    rawQueues,         \* p2: partition -> raw records
    taskQueues,        \* v11 taskQueues / p2 parsedQueues
    lockedPartitions,  \* v11 lockedPartitions / p2 CacheManager partition locks
    downloadComplete,
    parseComplete,
    totalLoaded,
    stored,            \* partition store -> records written, in write order
    registered,        \* partitions registered with the CacheManager
    metaTotal,         \* metadata totalCount written by the load (-1: none yet)
    metaSaves,         \* number of saveMetadataAndShardIndex calls of the load
    shardCount,        \* per shard: records the server returned (-1: not yet)
    fetchFailed,       \* shards whose fetch failed
    storeFailed        \* number of records lost in failed store calls

pipeVars == <<variant, mainPc, index, dl, sw, pw, rawQueues, taskQueues,
              lockedPartitions, downloadComplete, parseComplete, totalLoaded,
              stored, registered, metaTotal, metaSaves, shardCount,
              fetchFailed, storeFailed>>

VARIABLES
    recs,              \* allDataCache store: record id -> payload version (0: absent)
    meta,              \* metaData store entry 'allDataMeta'
    pendingMeta,       \* metadata transactions created and not yet run, in order
    run,               \* catch-up runs: [pc, since, lo, ids, ver, max, kind]
    serverMax,         \* newest change-log id on the server
    now,               \* Date.now()
    statsCache,        \* statisticsCache store has an entry for the key
    bucketCache,       \* dataStoreCache entry: [present, timestamp]
    reloadPc,          \* bulk reload: "idle" / "loading"
    statsStale,        \* a write was accepted after the statistics were cached
    bucketStale,       \* a write was accepted after the buckets were cached
    anySuccess,        \* some catch-up run saved its cursor
    maxReturned,       \* largest maxChangeLogId of a run that saved its cursor
    reloaded,          \* a bulk reload has saved its metadata
    rejected           \* write calls whose promise was rejected

syncVars == <<recs, meta, pendingMeta, run, serverMax, now, statsCache,
              bucketCache, reloadPc, statsStale, bucketStale, anySuccess,
              maxReturned, reloaded, rejected>>

VARIABLES
    ws,                \* readyState of the newest socket ("none" before the first)
    wsRef,             \* this.ws refers to that socket (null after disconnect)
    isConnected,
    isReconnecting,
    reconnectTimer,    \* the setTimeout of scheduleReconnect is pending
    heartbeatInterval, \* the setInterval of startHeartbeat is active
    missedHeartbeats,
    disconnected,      \* disconnect() was the last call of the page
    serverUp,          \* the push server is reachable and answers
    hbTimedOut,        \* the heartbeat timer closed the socket of this connection
    reconnectsSinceTimeout, \* reconnects scheduled since that close
    attempt,           \* connect() of the reconnect timer: "none" / "pending" / "failed"
    failedMessages,    \* push messages whose handling failed
    escaped            \* an exception has left a handler of the manager

wsVars == <<ws, wsRef, isConnected, isReconnecting, reconnectTimer,
            heartbeatInterval, missedHeartbeats, disconnected, serverUp,
            hbTimedOut, reconnectsSinceTimeout, attempt, failedMessages,
            escaped>>

\* The records API.
VARIABLES
    table,             \* satellite_records: start_time -> number of rows
    request,           \* query parameters of the last GET records
    response           \* data of its response

apiVars == <<table, request, response>>

\* The shard generator.
VARIABLES
    startDate,         \* arguments of generateYearQuarterShards
    endDate,
    quarterShards,     \* its return value
    generated          \* it has returned

genVars == <<startDate, endDate, quarterShards, generated>>

\* The incremental load.
VARIABLES
    incPc,             \* incrementalParallelLoad: "download" / "storage" / "done"
    incFetched,        \* shards whose fetch has returned
    storageQueue,      \* record counts of the downloaded shards, in push order
    incDownloadComplete,
    isw,               \* storage workers: pc, pendingBatch (a count)
    incStored,         \* records put by committed appendData transactions
    incMeta,           \* totalCount of the metadata entry
    incTx,             \* IndexedDB transactions opened and not yet run, oldest first
    incTotalLoaded,
    incFailed          \* records of appendData calls that rejected

incVars == <<incPc, incFetched, storageQueue, incDownloadComplete, isw,
             incStored, incMeta, incTx, incTotalLoaded, incFailed>>

\* The keys of the allDataCache store.
VARIABLES
    idShape,           \* what the service puts in the id field of a record
    allData,           \* allDataCache store: key -> entry (NoEntry: none)
    putFailed          \* the last write call threw or rejected

keyVars == <<idShape, allData, putFailed>>

\* The cache across page loads and forced refreshes.
VARIABLES
    preloadPc,         \* autoPreloadAllData: "idle" / "clear" / "load" / "save"
    shardFetch,        \* per shard: Pending, Failed or the records it returned
    cacheRecords,      \* records in the allDataCache store
    cacheMeta,         \* totalCount of 'allDataMeta' (NoCount: no entry)
    atStart,           \* records and metadata when the running preload began
    allFailed          \* the last bulk load has returned and every fetch failed

reloadVars == <<preloadPc, shardFetch, cacheRecords, cacheMeta, atStart, allFailed>>

\* The normalize step of a shard response.
VARIABLES
    rawRecords,        \* data.data.records of a shard response
    processed,         \* what preprocessRecords returned for it
    preprocessed       \* preprocessRecords has returned

normVars == <<rawRecords, processed, preprocessed>>

\* The paginated fallback load.
VARIABLES
    pagePc,            \* fetchAllDataWithPagination: "idle" / "loop" / "returned" / "thrown"
    pageOffset,        \* offset
    currentPage,
    consecutiveEmptyPages,
    allData_length     \* allData.length

pageVars == <<pagePc, pageOffset, currentPage, consecutiveEmptyPages, allData_length>>

\* The page start (the DOMContentLoaded handler and what it calls).
VARIABLES
    startPc,           \* the handler: "loading" / "catchup" / "clear" / "preload" / "scheduled" / "started" / "failed"
    catchupRun,        \* the calls of checkAndPerformCatchup: 1 the handler's, 2 a visibilitychange's
    catchupCalls,      \* calls of checkAndPerformCatchup made so far
    storedCursor,      \* lastChangeLogId in the metadata store (0: first load)
    cacheAge,          \* checkAllDataCache: "none" / "fresh" / "old" (more than 30 minutes)
    preload,           \* autoPreloadAllData: "none" / "checking" / "loading" / "fallback" / "done" / "thrown"
    background,        \* the incrementalParallelLoad set off by a cache hit
    appCreated,        \* window.app
    socket,            \* this.ws: "none" / "connecting" / "open" / "closed"
    wsUrl,             \* this.wsUrl is set
    hidden             \* document.hidden

startVars == <<startPc, catchupRun, catchupCalls, storedCursor, cacheAge,
               preload, background, appCreated, socket, wsUrl, hidden>>

extVars == <<keyVars, reloadVars, normVars, pageVars, startVars>>

\* What the actions of one subsystem leave alone.
coreVars == <<pipeVars, syncVars, wsVars, apiVars, genVars, incVars>>
keyRest == <<coreVars, reloadVars, normVars, pageVars, startVars>>
reloadRest == <<coreVars, keyVars, normVars, pageVars, startVars>>
normRest == <<coreVars, keyVars, reloadVars, pageVars, startVars>>
pageRest == <<pipeVars, syncVars, wsVars, genVars, incVars, keyVars, reloadVars, normVars,
              startVars>>
startRest == <<coreVars, keyVars, reloadVars, normVars, pageVars>>

auxVars == <<apiVars, genVars, incVars, extVars>>

vars == <<pipeVars, syncVars, wsVars, auxVars>>

EmptyQueues == [p \in Partitions |-> <<>>]

\* a drain test that forgets the queues
hasTasksInQueues_none(q) == FALSE

hasTasksInQueues(q) == \E p \in Partitions : q[p] # <<>>

Take(s, n) == SubSeq(s, 1, n)
Drop(s, n) == SubSeq(s, n + 1, Len(s))

InitPipe ==
    /\ variant \in {"v11", "p2"}
    /\ mainPc = "setup"
    /\ index = 0
    /\ dl = [w \in DW |-> [pc |-> "new", shard |-> 0]]
    /\ sw = [w \in SW |-> [pc |-> "new", part |-> 0, batch |-> <<>>, batches |-> 0]]
    /\ pw = [w \in PW |-> "new"]
    /\ rawQueues = EmptyQueues
    /\ taskQueues = EmptyQueues
    /\ lockedPartitions = {}
    /\ downloadComplete = FALSE
    /\ parseComplete = FALSE
    /\ totalLoaded = 0
    /\ stored = EmptyQueues
    /\ registered = {}
    /\ metaTotal = -1
    /\ metaSaves = 0
    /\ shardCount = [i \in Shards |-> -1]
    /\ fetchFailed = {}
    /\ storeFailed = 0


\* ------------------------------------------------------------ main flow
\* v11: registerPartition for every shard and ensurePartitionsExist come
\* first, clearAllData second. p2: clearAllData first, ensurePartition second.
RegisterPartitions ==
    /\ mainPc = (IF variant = "v11" THEN "setup" ELSE "setup2")
    /\ registered' = Partitions
    /\ mainPc' = (IF variant = "v11" THEN "setup2" ELSE "start")
    /\ UNCHANGED <<syncVars, wsVars, auxVars>>
    /\ UNCHANGED <<variant, index, dl, sw, pw, rawQueues, taskQueues,
                   lockedPartitions, downloadComplete, parseComplete,
                   totalLoaded, stored, metaTotal, metaSaves, shardCount,
                   fetchFailed, storeFailed>>

ClearAllData ==
    /\ mainPc = (IF variant = "v11" THEN "setup2" ELSE "setup")
    /\ stored' = EmptyQueues
    /\ mainPc' = (IF variant = "v11" THEN "start" ELSE "setup2")
    /\ UNCHANGED <<syncVars, wsVars, auxVars>>
    /\ UNCHANGED <<variant, index, dl, sw, pw, rawQueues, taskQueues,
                   lockedPartitions, downloadComplete, parseComplete,
                   totalLoaded, registered, metaTotal, metaSaves, shardCount,
                   fetchFailed, storeFailed>>

\* Array.from(..., i => worker(i + 1)) runs every worker up to its first
\* await: storage and parse workers find empty queues and sleep, download
\* worker w claims shard index++ and starts its fetch, or returns at once.
StartWorkers ==
    /\ mainPc = "start"
    /\ LET n == DownloadWorkerCount(variant)
           claimed == Min(n, NumShards)
       IN /\ dl' = [w \in DW |->
                     IF w <= claimed THEN [pc |-> "fetch", shard |-> w]
                     ELSE IF w <= n THEN [pc |-> "done", shard |-> 0]
                     ELSE [pc |-> "off", shard |-> 0]]
          /\ index' = claimed
    /\ sw' = [w \in SW |-> [pc |-> "wait", part |-> 0, batch |-> <<>>, batches |-> 0]]
    /\ pw' = [w \in PW |-> IF variant = "p2" THEN "wait" ELSE "off"]
    /\ mainPc' = "download"
    /\ UNCHANGED <<syncVars, wsVars, auxVars>>
    /\ UNCHANGED <<variant, rawQueues, taskQueues, lockedPartitions,
                   downloadComplete, parseComplete, totalLoaded, stored,
                   registered, metaTotal, metaSaves, shardCount, fetchFailed,
                   storeFailed>>

\* ------------------------------------------------------ download workers
\* fetchShardData returns [] on a network error, a non-OK status or a
\* malformed body, and the preprocessed records otherwise.
\* a failed fetch that still hands over what it had received
fetchShardData_partial(i, ok, n) ==
    preprocessRecords(ServerRecords(i, IF ok THEN n ELSE 1))

fetchShardData(i, ok, n) == IF ok THEN preprocessRecords(ServerRecords(i, n)) ELSE <<>>

DownloadReturn(w) ==
    /\ dl[w].pc = "fetch"
    /\ \E ok \in BOOLEAN : \E n \in 0..MaxShardSize :
         LET i == dl[w].shard
             records == fetchShardData(i, ok, n)
         IN /\ (~ok) => n = 0
            /\ shardCount' = [shardCount EXCEPT ![i] = IF ok THEN n ELSE -1]
            /\ fetchFailed' = IF ok THEN fetchFailed ELSE fetchFailed \cup {i}
            /\ IF Len(records) > 0
               THEN IF variant = "v11"
                    THEN /\ taskQueues' = [taskQueues EXCEPT ![i] = @ \o records]
                         /\ UNCHANGED rawQueues
                    ELSE /\ rawQueues' = [rawQueues EXCEPT ![i] = @ \o records]
                         /\ UNCHANGED taskQueues
               ELSE UNCHANGED <<taskQueues, rawQueues>>
    /\ dl' = [dl EXCEPT ![w].pc = "yield"]
    /\ UNCHANGED <<syncVars, wsVars, auxVars>>
    /\ UNCHANGED <<variant, mainPc, index, sw, pw, lockedPartitions,
                   downloadComplete, parseComplete, totalLoaded, stored,
                   registered, metaTotal, metaSaves, storeFailed>>

\* a claim that reads the index and forgets to advance it
claimShard_noinc(idx) == [shard |-> idx + 1, index |-> idx]

\* shards[index++]: the shard at the index (shards are numbered from 1 here)
\* and the index after the claim, read and advanced in one synchronous step.
claimShard(idx) == [shard |-> idx + 1, index |-> idx + 1]

\* after setTimeout(0): while (index < shards.length) { shard = shards[index++] ... }
DownloadResume(w) ==
    /\ dl[w].pc = "yield"
    /\ IF index < NumShards
       THEN /\ dl' = [dl EXCEPT ![w] = [pc |-> "fetch", shard |-> claimShard(index).shard]]
            /\ index' = claimShard(index).index
       ELSE /\ dl' = [dl EXCEPT ![w] = [pc |-> "done", shard |-> 0]]
            /\ UNCHANGED index
    /\ UNCHANGED <<syncVars, wsVars, auxVars>>
    /\ UNCHANGED <<variant, mainPc, sw, pw, rawQueues, taskQueues,
                   lockedPartitions, downloadComplete, parseComplete,
                   totalLoaded, stored, registered, metaTotal, metaSaves,
                   shardCount, fetchFailed, storeFailed>>

DownloadsJoined ==
    /\ mainPc = "download"
    /\ \A w \in DW : dl[w].pc \in {"done", "off"}
    /\ downloadComplete' = TRUE
    /\ mainPc' = (IF variant = "v11" THEN "storage" ELSE "parse")
    /\ UNCHANGED <<syncVars, wsVars, auxVars>>
    /\ UNCHANGED <<variant, index, dl, sw, pw, rawQueues, taskQueues,
                   lockedPartitions, parseComplete, totalLoaded, stored,
                   registered, metaTotal, metaSaves, shardCount, fetchFailed,
                   storeFailed>>

\* -------------------------------------------------- parse workers (p2)
hasRawData(q) == \E p \in Partitions : q[p] # <<>>

\* One wake-up of a parse worker. The body of its while loop has no await
\* while it finds work: pass after pass it moves a batch per partition from
\* the raw queue to the parsed queue until every raw queue is empty, and only
\* then sleeps. A wake-up that finds the loop condition false ends the worker.
ParseWake(w) ==
    /\ pw[w] = "wait"
    /\ IF ~downloadComplete \/ hasRawData(rawQueues)
       THEN /\ taskQueues' = [p \in Partitions |->
                                taskQueues[p] \o parseRecords(rawQueues[p])]
            /\ rawQueues' = EmptyQueues
            /\ UNCHANGED pw
       ELSE /\ pw' = [pw EXCEPT ![w] = "done"]
            /\ UNCHANGED <<taskQueues, rawQueues>>
    /\ UNCHANGED <<syncVars, wsVars, auxVars>>
    /\ UNCHANGED <<variant, mainPc, index, dl, sw, lockedPartitions,
                   downloadComplete, parseComplete, totalLoaded, stored,
                   registered, metaTotal, metaSaves, shardCount, fetchFailed,
                   storeFailed>>

ParseJoined ==
    /\ mainPc = "parse"
    /\ \A w \in PW : pw[w] = "done"
    /\ parseComplete' = TRUE
    /\ mainPc' = "storage"
    /\ UNCHANGED <<syncVars, wsVars, auxVars>>
    /\ UNCHANGED <<variant, index, dl, sw, pw, rawQueues, taskQueues,
                   lockedPartitions, downloadComplete, totalLoaded, stored,
                   registered, metaTotal, metaSaves, shardCount, fetchFailed,
                   storeFailed>>

\* ------------------------------------------------------- storage workers
\* v11 batch size: everything when at most 40% of MIN_BATCH_SIZE is left,
\* otherwise Math.min(queue.length, MIN_BATCH_SIZE).
batchSizeV11(len) == IF len * 10 <= BatchSize * 4 THEN len ELSE Min(len, BatchSize)
\* p2 batch size: Math.min(parsedQueue.length, OPTIMAL_BATCH_SIZE).
batchSizeP2(len) == Min(len, BatchSize)

\* a scan test that forgets the lock set
ClaimableV11_nolock(q, locked, p) == q[p] # <<>>

\* v11 scan test: queue.length === 0 -> continue; lockedPartitions.has -> continue.
ClaimableV11(q, locked, p) == q[p] # <<>> /\ p \notin locked

\* CacheManager.tryLockPartition(partitionId): true iff the partition was
\* not locked (it is locked afterwards).
tryLockPartition(locked, p) == p \notin locked

\* p2 scan test: parsedQueue.length === 0 -> continue; !tryLockPartition -> continue.
ClaimableP2(q, locked, p) == q[p] # <<>> /\ tryLockPartition(locked, p)

Claimable(v, q, locked, p) ==
    IF v = "v11" THEN ClaimableV11(q, locked, p) ELSE ClaimableP2(q, locked, p)

\* a scan that stops at the first partition with queued records and gives
\* up when that one is locked
FirstClaimable_blocking(v, q, locked, from) ==
    LET c == {p \in Partitions : p >= from /\ q[p] # <<>>}
        first == CHOOSE p \in c : \A r \in c : p <= r
    IN IF c = {} THEN 0
       ELSE IF Claimable(v, q, locked, first) THEN first ELSE 0

\* First partition at or after `from`, in Object.entries order, that the
\* scanning worker takes; 0 when the for loop ends without one.
FirstClaimable(v, q, locked, from) ==
    LET c == {p \in Partitions : p >= from /\ Claimable(v, q, locked, p)}
    IN IF c = {} THEN 0 ELSE CHOOSE p \in c : \A r \in c : p <= r

\* a splice that takes the batch off the back of the queue
Locked_back(v, q, locked, p) ==
    LET n == IF v = "v11" THEN batchSizeV11(Len(q[p])) ELSE batchSizeP2(Len(q[p]))
    IN [w |-> [pc |-> "store", part |-> p,
               batch |-> SubSeq(q[p], Len(q[p]) - n + 1, Len(q[p])),
               batches |-> 1],
        q |-> [q EXCEPT ![p] = SubSeq(q[p], 1, Len(q[p]) - n)],
        locked |-> locked \cup {p},
        kept |-> FALSE]

\* Worker state and shared state once the worker has locked partition p,
\* spliced its batch off the queue and called storePartitionedBatch.
\* batches: the batches the worker has spliced off since it took the lock.
\* kept: the batch is a further one under a lock the worker held already.
Locked(v, q, locked, p) ==
    LET n == IF v = "v11" THEN batchSizeV11(Len(q[p])) ELSE batchSizeP2(Len(q[p]))
    IN [w |-> [pc |-> "store", part |-> p, batch |-> Take(q[p], n),
               batches |-> 1],
        q |-> [q EXCEPT ![p] = Drop(q[p], n)],
        locked |-> locked \cup {p},
        kept |-> FALSE]

Idle(pc, q, locked) ==
    [w |-> [pc |-> pc, part |-> 0, batch |-> <<>>, batches |-> 0], q |-> q,
     locked |-> locked, kept |-> FALSE]

\* From the top of the storage worker's while loop to its next await.
\* upstream: downloadComplete (v11) or parseComplete (p2).
ScanTop(v, upstream, q, locked) ==
    IF ~upstream \/ hasTasksInQueues(q)
    THEN LET p == FirstClaimable(v, q, locked, 1)
         IN IF p = 0 THEN Idle("wait", q, locked) ELSE Locked(v, q, locked, p)
    ELSE Idle("done", q, locked)

\* a store call whose failure path has no finally: the lock is kept
AfterStore_nofinally(v, upstream, q, locked, p, ok) ==
    IF ok
    THEN IF v = "v11" /\ q[p] # <<>>
         THEN [w |-> [pc |-> "store", part |-> p, batch |-> Take(q[p], 1),
                      batches |-> 1],
               q |-> [q EXCEPT ![p] = Drop(q[p], 1)], locked |-> locked,
               kept |-> TRUE]
         ELSE [w |-> [pc |-> "wait", part |-> 0, batch |-> <<>>, batches |-> 0],
               q |-> q, locked |-> locked \ {p}, kept |-> FALSE]
    ELSE [w |-> [pc |-> "wait", part |-> 0, batch |-> <<>>, batches |-> 0],
          q |-> q, locked |-> locked, kept |-> FALSE]

\* After a store call on partition p has returned or thrown.
\* v11: while (queue.length > 0) goes on with the next batch under the same
\*      lock (only when the call returned); otherwise finally releases the
\*      lock, break leaves the for loop and the while loop starts over.
\* p2:  finally releases the lock and the for loop continues with the
\*      partitions after p; taskFound is true, so the pass is followed by
\*      the loop test and a new pass without sleeping.
AfterStore(v, upstream, q, locked, p, ok) ==
    IF v = "v11"
    THEN IF ok /\ q[p] # <<>>
         THEN [Locked(v, q, locked \ {p}, p) EXCEPT !.kept = TRUE]
         ELSE ScanTop(v, upstream, q, locked \ {p})
    ELSE LET nxt == FirstClaimable(v, q, locked \ {p}, p + 1)
         IN IF nxt # 0 THEN Locked(v, q, locked \ {p}, nxt)
            ELSE ScanTop(v, upstream, q, locked \ {p})

Upstream == IF variant = "v11" THEN downloadComplete ELSE parseComplete

StorageWake(w) ==
    /\ sw[w].pc = "wait"
    /\ LET r == ScanTop(variant, Upstream, taskQueues, lockedPartitions)
       IN /\ sw' = [sw EXCEPT ![w] = r.w]
          /\ taskQueues' = r.q
          /\ lockedPartitions' = r.locked
    /\ UNCHANGED <<syncVars, wsVars, auxVars>>
    /\ UNCHANGED <<variant, mainPc, index, dl, pw, rawQueues, downloadComplete,
                   parseComplete, totalLoaded, stored, registered, metaTotal,
                   metaSaves, shardCount, fetchFailed, storeFailed>>

\* storePartitionedBatch resolves: the batch is in the partition store.
StoreReturn(w) ==
    /\ sw[w].pc = "store"
    /\ LET p == sw[w].part
           b == sw[w].batch
           r == AfterStore(variant, Upstream, taskQueues, lockedPartitions, p, TRUE)
       IN /\ stored' = [stored EXCEPT ![p] = @ \o b]
          /\ totalLoaded' = totalLoaded + Len(b)
          /\ sw' = [sw EXCEPT ![w] =
                     IF r.kept
                     THEN [r.w EXCEPT !.batches = sw[w].batches + 1]
                     ELSE r.w]
          /\ taskQueues' = r.q
          /\ lockedPartitions' = r.locked
    /\ UNCHANGED <<syncVars, wsVars, auxVars>>
    /\ UNCHANGED <<variant, mainPc, index, dl, pw, rawQueues, downloadComplete,
                   parseComplete, registered, metaTotal, metaSaves, shardCount,
                   fetchFailed, storeFailed>>

\* storePartitionedBatch rejects: the catch block logs, the batch is gone.
StoreThrow(w) ==
    /\ sw[w].pc = "store"
    /\ LET p == sw[w].part
           b == sw[w].batch
           r == AfterStore(variant, Upstream, taskQueues, lockedPartitions, p, FALSE)
       IN /\ storeFailed' = storeFailed + Len(b)
          /\ sw' = [sw EXCEPT ![w] =
                     IF r.kept
                     THEN [r.w EXCEPT !.batches = sw[w].batches + 1]
                     ELSE r.w]
          /\ taskQueues' = r.q
          /\ lockedPartitions' = r.locked
    /\ UNCHANGED <<syncVars, wsVars, auxVars>>
    /\ UNCHANGED <<variant, mainPc, index, dl, pw, rawQueues, downloadComplete,
                   parseComplete, totalLoaded, stored, registered, metaTotal,
                   metaSaves, shardCount, fetchFailed>>

\* a save that follows the download stage without awaiting the storage workers
SaveMetadata_early ==
    /\ mainPc = "storage"
    /\ metaTotal' = totalLoaded
    /\ metaSaves' = metaSaves + 1
    /\ mainPc' = "done"
    /\ UNCHANGED <<syncVars, wsVars, auxVars>>
    /\ UNCHANGED <<variant, index, dl, sw, pw, rawQueues, taskQueues,
                   lockedPartitions, downloadComplete, parseComplete,
                   totalLoaded, stored, registered, shardCount, fetchFailed,
                   storeFailed>>

\* await Promise.all(storageWorkers); getTimeRangeQuick;
\* saveMetadataAndShardIndex(totalLoaded, {}, minDate, maxDate)
SaveMetadata ==
    /\ mainPc = "storage"
    /\ \A w \in SW : sw[w].pc = "done"
    /\ metaTotal' = totalLoaded
    /\ metaSaves' = metaSaves + 1
    /\ mainPc' = "done"
    /\ UNCHANGED <<syncVars, wsVars, auxVars>>
    /\ UNCHANGED <<variant, index, dl, sw, pw, rawQueues, taskQueues,
                   lockedPartitions, downloadComplete, parseComplete,
                   totalLoaded, stored, registered, shardCount, fetchFailed,
                   storeFailed>>

\* ============================================ CacheManager: store, metadata
Ids == 1..NumIds
Runs == 1..MaxRuns
Vers == 1..MaxVer

\* No 'allDataMeta' entry. cursor 0 stands for a missing lastChangeLogId and
\* lastSyncTime 0 for a missing lastSyncTime: the readers use `|| 0`.
NoMeta == [present |-> FALSE, totalCount |-> 0, lastUpdated |-> 0,
           lastSyncTime |-> 0, cursor |-> 0]

\* getLastChangeLogId: meta?.lastChangeLogId || 0
getLastChangeLogId(m) == IF m.present THEN m.cursor ELSE 0

\* updateRecord / batchUpdateRecords metadata step: the entry, or a new one
\* with totalCount 0, gets lastUpdated = lastSyncTime = Date.now().
TouchMeta(m, t) ==
    [present |-> TRUE, totalCount |-> m.totalCount, lastUpdated |-> t,
     lastSyncTime |-> t, cursor |-> m.cursor]

\* a delete that counts one record less whether or not it removed one
DeleteMeta_count(m, t) ==
    IF m.present
    THEN [present |-> TRUE, totalCount |-> Max(m.totalCount - 1, 0),
          lastUpdated |-> t, lastSyncTime |-> t, cursor |-> m.cursor]
    ELSE m

\* deleteRecord metadata step: only an existing entry is touched.
DeleteMeta(m, t) == IF m.present THEN TouchMeta(m, t) ELSE m

\* appendData metadata step: totalCount += appendedCount, lastUpdated = now.
AppendMeta(m, t, n) ==
    [present |-> TRUE, totalCount |-> m.totalCount + n, lastUpdated |-> t,
     lastSyncTime |-> m.lastSyncTime, cursor |-> m.cursor]

\* saveLastChangeLogId: meta.lastChangeLogId = changeLogId, whatever it was.
saveLastChangeLogId(m, t, changeLogId) ==
    [present |-> TRUE, totalCount |-> m.totalCount, lastUpdated |-> t,
     lastSyncTime |-> t, cursor |-> changeLogId]

\* saveMetadataAndShardIndex: store.put of a new object without a
\* lastChangeLogId field.
saveMetadataAndShardIndex(t, totalCount) ==
    [present |-> TRUE, totalCount |-> totalCount, lastUpdated |-> t,
     lastSyncTime |-> t, cursor |-> 0]

\* a batch write that puts the first record only
PutAll_first(store, ids, v) ==
    [i \in Ids |-> IF i \in ids /\ \A j \in ids : i <= j THEN v ELSE store[i]]

\* allDataStore.put of every record of the batch (keyPath 'id').
PutAll(store, ids, v) == [i \in Ids |-> IF i \in ids THEN v ELSE store[i]]

\* getStatistics: the entry when there is one.
getStatistics == statsCache

\* loadDataStoreBuckets(groupType, lastSyncTime): no entry, or an entry with
\* lastSyncTime && timestamp < lastSyncTime, reads as null.
loadDataStoreBuckets(lastSyncTime) ==
    /\ bucketCache.present
    /\ ~(lastSyncTime # 0 /\ bucketCache.timestamp < lastSyncTime)

IdleRun == [pc |-> "idle", since |-> 0, lo |-> 0, ids |-> {}, ver |-> 0,
            max |-> 0, kind |-> "none"]

\* Outcomes of the catch-up request that the handler treats as a failure:
\* fetch rejects, response.ok is false, response.json() rejects,
\* result.success is falsy, result.data is missing, data.records is missing.
Failures == {"network", "status", "json", "nosuccess", "nodata", "norecords"}

\* a handler that takes a non-OK response for a good one
IsFailure_nostatus(kind) == kind \in Failures \ {"status"}

IsFailure(kind) == kind \in Failures

\* The database as a page load finds it: an empty record store and either
\* no metadata entry or the entry that saveLastChangeLogId(1) creates on an
\* empty store (IndexedDB outlives the page, and a cursor of 0 never starts
\* a catch-up run). The server is at the change-log id of that cursor.
InitSync ==
    /\ recs = [i \in Ids |-> 0]
    /\ meta \in {NoMeta, saveLastChangeLogId(NoMeta, 0, 1)}
    /\ pendingMeta = <<>>
    /\ run = [r \in Runs |-> IdleRun]
    /\ serverMax = 1
    /\ now = 0
    /\ statsCache = FALSE
    /\ bucketCache = [present |-> FALSE, timestamp |-> 0]
    /\ reloadPc = "idle"
    /\ statsStale = FALSE
    /\ bucketStale = FALSE
    /\ anySuccess = FALSE
    /\ maxReturned = 0
    /\ reloaded = FALSE
    /\ rejected = 0

\* a write to the record store has been accepted
WriteAccepted ==
    /\ statsStale' = (statsStale \/ statsCache)
    /\ bucketStale' = (bucketStale \/ bucketCache.present)

Tick ==
    /\ now < MaxClock
    /\ now' = now + 1
    /\ UNCHANGED <<recs, meta, pendingMeta, run, serverMax, statsCache,
                   bucketCache, reloadPc, statsStale, bucketStale, anySuccess,
                   maxReturned, reloaded>>
    /\ UNCHANGED rejected
    /\ UNCHANGED <<pipeVars, wsVars, auxVars>>

\* The server records a change.
ServerChange ==
    /\ serverMax < MaxChangeLogId
    /\ serverMax' = serverMax + 1
    /\ UNCHANGED <<recs, meta, pendingMeta, run, now, statsCache,
                   bucketCache, reloadPc, statsStale, bucketStale, anySuccess,
                   maxReturned, reloaded>>
    /\ UNCHANGED rejected
    /\ UNCHANGED <<pipeVars, wsVars, auxVars>>

\* ------------------------------------------------------------ catch-up
\* checkAndPerformCatchup (run 1: DOMContentLoaded; the others:
\* visibilitychange): read the cursor; 0 skips the run, anything else is
\* sent as sinceChangeLogId.
\* a check that sends the request whatever the cursor is
isFirstLoad_never(lastChangeLogId) == FALSE

\* if (lastChangeLogId === 0): first load, left to the pipeline loader
isFirstLoad(lastChangeLogId) == lastChangeLogId = 0

checkAndPerformCatchup(r) ==
    /\ run[r].pc = "idle"
    /\ pendingMeta = <<>>
    /\ LET c == getLastChangeLogId(meta) IN
         run' = [run EXCEPT ![r] =
                   IF isFirstLoad(c) THEN [IdleRun EXCEPT !.kind = "skipped"]
                   ELSE [IdleRun EXCEPT !.pc = "fetch", !.since = c,
                                        !.lo = Max(c, serverMax)]]
    /\ UNCHANGED <<recs, meta, pendingMeta, serverMax, now, statsCache,
                   bucketCache, reloadPc, statsStale, bucketStale, anySuccess,
                   maxReturned, reloaded>>
    /\ UNCHANGED rejected
    /\ UNCHANGED <<pipeVars, wsVars, auxVars>>

\* The request of run r is answered. A failure ends the run; so does an
\* empty record list. Otherwise batchUpdateRecords is called with the
\* records (id = plan_id). The server answers with the changes after
\* sinceChangeLogId that it has when it handles the request: maxChangeLogId
\* is at least what the server had when the request was sent, and the
\* record list is empty exactly when nothing changed.
\* a check that lets an empty record list through to the batch write
noRecords_never(R) == FALSE

\* if (records.length === 0)
noRecords(R) == R = {}

CatchupResponse(r) ==
    /\ run[r].pc = "fetch"
    /\ \E kind \in Failures \cup {"ok"}, R \in SUBSET Ids, v \in Vers,
          m \in run[r].lo..serverMax :
         /\ (R = {}) <=> (m = run[r].since)
         /\ run' = [run EXCEPT ![r] =
                      IF IsFailure(kind) THEN [IdleRun EXCEPT !.kind = kind]
                      ELSE IF noRecords(R) THEN [IdleRun EXCEPT !.kind = "empty"]
                      ELSE [pc |-> "apply", since |-> run[r].since,
                            lo |-> run[r].lo, ids |-> R, ver |-> v, max |-> m,
                            kind |-> kind]]
    /\ UNCHANGED <<recs, meta, pendingMeta, serverMax, now, statsCache,
                   bucketCache, reloadPc, statsStale, bucketStale, anySuccess,
                   maxReturned, reloaded>>
    /\ UNCHANGED rejected
    /\ UNCHANGED <<pipeVars, wsVars, auxVars>>

\* The data transaction of the run's batchUpdateRecords commits. Its
\* oncomplete opens the metadata transaction and resolves; the run goes on
\* to saveLastChangeLogId(maxChangeLogId), whose transaction is queued next.
CatchupApplied(r) ==
    /\ run[r].pc = "apply"
    /\ recs' = PutAll(recs, run[r].ids, run[r].ver)
    /\ pendingMeta' = pendingMeta \o <<[op |-> "touch", n |-> 0, run |-> 0],
                                       [op |-> "cursor", n |-> run[r].max, run |-> r]>>
    /\ run' = [run EXCEPT ![r].pc = "save"]
    /\ WriteAccepted
    /\ UNCHANGED <<meta, serverMax, now, statsCache, bucketCache, reloadPc,
                   anySuccess, maxReturned, reloaded>>
    /\ UNCHANGED rejected
    /\ UNCHANGED <<pipeVars, wsVars, auxVars>>

\* The data transaction fails: transaction.onerror rejects, the catch block
\* of the run logs and returns.
CatchupApplyFails(r) ==
    /\ run[r].pc = "apply"
    /\ run' = [run EXCEPT ![r] = [IdleRun EXCEPT !.kind = "storefail"]]
    /\ UNCHANGED <<recs, meta, pendingMeta, serverMax, now, statsCache,
                   bucketCache, reloadPc, statsStale, bucketStale, anySuccess,
                   maxReturned, reloaded>>
    /\ UNCHANGED rejected
    /\ UNCHANGED <<pipeVars, wsVars, auxVars>>

\* The oldest queued metadata transaction is the one of a batchUpdateRecords.
MetaTouch ==
    /\ pendingMeta # <<>> /\ Head(pendingMeta).op = "touch"
    /\ meta' = TouchMeta(meta, now)
    /\ pendingMeta' = Tail(pendingMeta)
    /\ UNCHANGED <<recs, run, serverMax, now, statsCache, bucketCache,
                   reloadPc, statsStale, bucketStale, anySuccess, maxReturned,
                   reloaded>>
    /\ UNCHANGED rejected
    /\ UNCHANGED <<pipeVars, wsVars, auxVars>>

\* The oldest queued metadata transaction is the one of an appendData.
MetaAppend ==
    /\ pendingMeta # <<>> /\ Head(pendingMeta).op = "append"
    /\ meta' = AppendMeta(meta, now, Head(pendingMeta).n)
    /\ pendingMeta' = Tail(pendingMeta)
    /\ UNCHANGED <<recs, run, serverMax, now, statsCache, bucketCache,
                   reloadPc, statsStale, bucketStale, anySuccess, maxReturned,
                   reloaded>>
    /\ UNCHANGED rejected
    /\ UNCHANGED <<pipeVars, wsVars, auxVars>>

\* The oldest queued metadata transaction is a run's saveLastChangeLogId:
\* the run returns hasNewData, and the DOMContentLoaded handler (run 1)
\* then calls clearDataStoreBucketsCache.
CursorSaved ==
    /\ pendingMeta # <<>> /\ Head(pendingMeta).op = "cursor"
    /\ LET e == Head(pendingMeta) IN
         /\ meta' = saveLastChangeLogId(meta, now, e.n)
         /\ run' = [run EXCEPT ![e.run] = [IdleRun EXCEPT !.kind = "applied"]]
         /\ maxReturned' = Max(maxReturned, e.n)
         /\ IF e.run = 1
            THEN /\ bucketCache' = [present |-> FALSE, timestamp |-> 0]
                 /\ bucketStale' = FALSE
            ELSE UNCHANGED <<bucketCache, bucketStale>>
    /\ pendingMeta' = Tail(pendingMeta)
    /\ anySuccess' = TRUE
    /\ UNCHANGED <<recs, serverMax, now, statsCache, reloadPc, statsStale,
                   reloaded>>
    /\ UNCHANGED rejected
    /\ UNCHANGED <<pipeVars, wsVars, auxVars>>

\* ------------------------------------------------------- store writes
\* Counts that queued appendData transactions will still add.
RECURSIVE PendingAppends(_)
PendingAppends(q) ==
    IF q = <<>> THEN 0
    ELSE (IF Head(q).op = "append" THEN Head(q).n ELSE 0) + PendingAppends(Tail(q))

\* handleDataChange with operation insert or update -> updateRecord(record):
\* one transaction over the record store and the metadata store puts the
\* record and touches the metadata; totalCount is left as it is.
updateRecord(i, v) ==
    /\ pendingMeta = <<>>
    /\ recs' = [recs EXCEPT ![i] = v]
    /\ meta' = TouchMeta(meta, now)
    /\ WriteAccepted
    /\ UNCHANGED <<pendingMeta, run, serverMax, now, statsCache, bucketCache,
                   reloadPc, anySuccess, maxReturned, reloaded>>
    /\ UNCHANGED rejected
    /\ UNCHANGED <<pipeVars, wsVars, auxVars>>

\* handleDataChange with operation delete -> deleteRecord(record.id)
deleteRecord(i) ==
    /\ pendingMeta = <<>>
    /\ recs' = [recs EXCEPT ![i] = 0]
    /\ meta' = DeleteMeta(meta, now)
    /\ WriteAccepted
    /\ UNCHANGED <<pendingMeta, run, serverMax, now, statsCache, bucketCache,
                   reloadPc, anySuccess, maxReturned, reloaded>>
    /\ UNCHANGED rejected
    /\ UNCHANGED <<pipeVars, wsVars, auxVars>>

\* handleBatchUpdate -> batchUpdateRecords(records): the data transaction
\* commits, its oncomplete opens the metadata transaction.
batchUpdateRecords(R, v) ==
    /\ R # {}
    /\ Len(pendingMeta) < MaxPending
    /\ recs' = PutAll(recs, R, v)
    /\ pendingMeta' = Append(pendingMeta, [op |-> "touch", n |-> 0, run |-> 0])
    /\ WriteAccepted
    /\ UNCHANGED <<meta, run, serverMax, now, statsCache, bucketCache,
                   reloadPc, anySuccess, maxReturned, reloaded>>
    /\ UNCHANGED rejected
    /\ UNCHANGED <<pipeVars, wsVars, auxVars>>

\* appendData(newRecords): the data transaction commits with appendedCount
\* puts, its oncomplete opens the metadata transaction.
appendData(R, v) ==
    /\ R # {}
    /\ Len(pendingMeta) < MaxPending
    /\ meta.totalCount + PendingAppends(pendingMeta) + Cardinality(R) <= MaxTotal
    /\ recs' = PutAll(recs, R, v)
    /\ pendingMeta' = Append(pendingMeta,
                             [op |-> "append", n |-> Cardinality(R), run |-> 0])
    /\ WriteAccepted
    /\ UNCHANGED <<meta, run, serverMax, now, statsCache, bucketCache,
                   reloadPc, anySuccess, maxReturned, reloaded>>
    /\ UNCHANGED rejected
    /\ UNCHANGED <<pipeVars, wsVars, auxVars>>

\* a rejected write that runs its metadata step all the same
FailedWriteMeta_touch(m, t) == TouchMeta(m, t)

\* The metadata entry after a write call that rejects. updateRecord: put
\* throws or putRequest.onerror fires, the transaction aborts with the
\* metadata step in it. batchUpdateRecords, appendData: put throws before
\* oncomplete is assigned, or transaction.onerror fires and oncomplete,
\* which holds the metadata step, does not.
FailedWriteMeta(m, t) == m

\* updateRecord(record) rejects: nothing of its transaction is kept.
updateRecordRejects ==
    /\ rejected < MaxRejected
    /\ pendingMeta = <<>>
    /\ rejected' = rejected + 1
    /\ meta' = FailedWriteMeta(meta, now)
    /\ UNCHANGED <<recs, pendingMeta, run, serverMax, now, statsCache,
                   bucketCache, reloadPc, statsStale, bucketStale, anySuccess,
                   maxReturned, reloaded>>
    /\ UNCHANGED <<pipeVars, wsVars, auxVars>>

\* batchUpdateRecords(records) rejects. When transaction.onerror fires the
\* transaction is rolled back (C = {}). When allDataStore.put throws on a
\* record without id, the executor is left inside forEach: the puts made
\* before it (C) commit with the transaction, no oncomplete handler exists.
batchUpdateRecordsRejects(R, v) ==
    /\ rejected < MaxRejected
    /\ pendingMeta = <<>>
    /\ \E C \in SUBSET R :
         /\ C # R
         /\ recs' = PutAll(recs, C, v)
         /\ IF C # {} THEN WriteAccepted ELSE UNCHANGED <<statsStale, bucketStale>>
    /\ rejected' = rejected + 1
    /\ meta' = FailedWriteMeta(meta, now)
    /\ UNCHANGED <<pendingMeta, run, serverMax, now, statsCache, bucketCache,
                   reloadPc, anySuccess, maxReturned, reloaded>>
    /\ UNCHANGED <<pipeVars, wsVars, auxVars>>

\* appendData(newRecords) rejects: transaction.onerror, nothing is kept.
appendDataRejects ==
    /\ rejected < MaxRejected
    /\ pendingMeta = <<>>
    /\ rejected' = rejected + 1
    /\ meta' = FailedWriteMeta(meta, now)
    /\ UNCHANGED <<recs, pendingMeta, run, serverMax, now, statsCache,
                   bucketCache, reloadPc, statsStale, bucketStale, anySuccess,
                   maxReturned, reloaded>>
    /\ UNCHANGED <<pipeVars, wsVars, auxVars>>

\* storeBatch(batch, monthStats): one transaction puts every record of the
\* batch; the metadata is written by the caller once all batches are in.
storeBatch(R, v) ==
    /\ R # {}
    /\ recs' = PutAll(recs, R, v)
    /\ recs' # recs \/ \A i \in R : recs[i] = v
    /\ UNCHANGED <<meta, pendingMeta, run, serverMax, now, statsCache,
                   bucketCache, reloadPc, statsStale, bucketStale, anySuccess,
                   maxReturned, reloaded>>
    /\ UNCHANGED rejected
    /\ UNCHANGED <<pipeVars, wsVars, auxVars>>

\* --------------------------------------------------------- bulk reload
\* parallelShardedLoad as the record store and the metadata see it:
\* clearAllData at its start ...
ReloadClear ==
    /\ reloadPc = "idle"
    /\ reloadPc' = "loading"
    /\ recs' = [i \in Ids |-> 0]
    /\ UNCHANGED <<meta, pendingMeta, run, serverMax, now, statsCache,
                   bucketCache, statsStale, bucketStale, anySuccess,
                   maxReturned, reloaded>>
    /\ UNCHANGED rejected
    /\ UNCHANGED <<pipeVars, wsVars, auxVars>>

\* ... and saveMetadataAndShardIndex(totalLoaded, ...) at its end.
ReloadSave ==
    /\ reloadPc = "loading"
    /\ pendingMeta = <<>>
    /\ \E n \in 0..MaxTotal : meta' = saveMetadataAndShardIndex(now, n)
    /\ reloadPc' = "idle"
    /\ reloaded' = TRUE
    /\ UNCHANGED <<recs, pendingMeta, run, serverMax, now, statsCache,
                   bucketCache, statsStale, bucketStale, anySuccess,
                   maxReturned>>
    /\ UNCHANGED rejected
    /\ UNCHANGED <<pipeVars, wsVars, auxVars>>

\* ---------------------------------------------------- aggregate caches
\* saveStatistics(statistics, cacheKey) after the statistics were computed
\* from the records as they are now.
saveStatistics ==
    /\ ~statsCache \/ statsStale
    /\ statsCache' = TRUE
    /\ statsStale' = FALSE
    /\ UNCHANGED <<recs, meta, pendingMeta, run, serverMax, now, bucketCache,
                   reloadPc, bucketStale, anySuccess, maxReturned, reloaded>>
    /\ UNCHANGED rejected
    /\ UNCHANGED <<pipeVars, wsVars, auxVars>>

\* saveDataStoreBuckets(groupType, buckets, recordCount): timestamp Date.now()
saveDataStoreBuckets ==
    /\ bucketCache' = [present |-> TRUE, timestamp |-> now]
    /\ bucketCache' # bucketCache \/ bucketStale
    /\ bucketStale' = FALSE
    /\ UNCHANGED <<recs, meta, pendingMeta, run, serverMax, now, statsCache,
                   reloadPc, statsStale, anySuccess, maxReturned, reloaded>>
    /\ UNCHANGED rejected
    /\ UNCHANGED <<pipeVars, wsVars, auxVars>>

\* Catch-up runs next to pushed single-record writes and bulk reloads.
NextCatchup ==
    \/ ServerChange
    \/ \E r \in Runs : checkAndPerformCatchup(r)
    \/ \E r \in Runs : CatchupResponse(r)
    \/ \E r \in Runs : CatchupApplied(r)
    \/ \E r \in Runs : CatchupApplyFails(r)
    \/ MetaTouch
    \/ CursorSaved
    \/ \E i \in Ids, v \in Vers : updateRecord(i, v)
    \/ ReloadClear
    \/ ReloadSave

\* Every write path of the record store next to the aggregate caches, with
\* the catch-up of the DOMContentLoaded handler.
NextStore ==
    \/ Tick
    \/ ServerChange
    \/ checkAndPerformCatchup(1)
    \/ CatchupResponse(1)
    \/ CatchupApplied(1)
    \/ MetaTouch
    \/ MetaAppend
    \/ CursorSaved
    \/ \E i \in Ids, v \in Vers : updateRecord(i, v)
    \/ \E i \in Ids : deleteRecord(i)
    \/ \E R \in SUBSET Ids, v \in Vers : batchUpdateRecords(R, v)
    \/ \E R \in SUBSET Ids, v \in Vers : appendData(R, v)
    \/ \E R \in SUBSET Ids, v \in Vers : storeBatch(R, v)
    \/ updateRecordRejects
    \/ \E R \in SUBSET Ids, v \in Vers : batchUpdateRecordsRejects(R, v)
    \/ appendDataRejects
    \/ saveStatistics
    \/ saveDataStoreBuckets

\* ================================================ WebSocketSyncManager
InitWs ==
    /\ ws = "none"
    /\ wsRef = FALSE
    /\ isConnected = FALSE
    /\ isReconnecting = FALSE
    /\ reconnectTimer = FALSE
    /\ heartbeatInterval = FALSE
    /\ missedHeartbeats = 0
    /\ disconnected = FALSE
    /\ serverUp = TRUE
    /\ hbTimedOut = FALSE
    /\ reconnectsSinceTimeout = 0
    /\ attempt = "none"
    /\ failedMessages = 0
    /\ escaped = FALSE

\* connect(): nothing to do while this.ws is CONNECTING or OPEN.
connectSkips == wsRef /\ ws \in {"connecting", "open"}

\* The page calls connect() (initWebSocket at startup, or again after a
\* disconnect()).
Connect ==
    /\ ~wsRef /\ ws \in {"none", "closed"} /\ ~reconnectTimer
    /\ ws' = "connecting"
    /\ wsRef' = TRUE
    /\ disconnected' = FALSE
    /\ UNCHANGED <<isConnected, isReconnecting, reconnectTimer, heartbeatInterval,
                   missedHeartbeats, serverUp, hbTimedOut,
                   reconnectsSinceTimeout, attempt>>
    /\ UNCHANGED <<failedMessages, escaped>>
    /\ UNCHANGED <<pipeVars, syncVars, auxVars>>

\* onopen -> handleOpen
handleOpen ==
    /\ ws = "connecting" /\ serverUp
    /\ ws' = "open"
    /\ isConnected' = TRUE
    /\ isReconnecting' = FALSE
    /\ missedHeartbeats' = 0
    /\ heartbeatInterval' = TRUE
    /\ hbTimedOut' = FALSE
    /\ reconnectsSinceTimeout' = 0
    /\ attempt' = "none"
    /\ UNCHANGED <<wsRef, reconnectTimer, disconnected, serverUp>>
    /\ UNCHANGED <<failedMessages, escaped>>
    /\ UNCHANGED <<pipeVars, syncVars, auxVars>>

\* scheduleReconnect(): if (this.isReconnecting) return; otherwise set the
\* flag and arm the timer.
scheduleReconnect ==
    IF isReconnecting
    THEN UNCHANGED <<isReconnecting, reconnectTimer, reconnectsSinceTimeout>>
    ELSE /\ isReconnecting' = TRUE
         /\ reconnectTimer' = TRUE
         /\ reconnectsSinceTimeout' = reconnectsSinceTimeout + (IF hbTimedOut THEN 1 ELSE 0)

\* handleClose(event): isConnected = false; stopHeartbeat();
\* if (!event.wasClean && !this.isReconnecting) scheduleReconnect().
handleClose(wasClean) ==
    /\ isConnected' = FALSE
    /\ heartbeatInterval' = FALSE
    /\ IF ~wasClean /\ ~isReconnecting
       THEN scheduleReconnect
       ELSE UNCHANGED <<isReconnecting, reconnectTimer, reconnectsSinceTimeout>>

\* The connection attempt fails: onerror (logged), then onclose with
\* wasClean false.
SocketFail ==
    /\ ws = "connecting"
    /\ ws' = "closed"
    /\ handleClose(FALSE)
    /\ attempt' = IF attempt = "pending" THEN "failed" ELSE attempt
    /\ UNCHANGED <<wsRef, missedHeartbeats, disconnected, serverUp, hbTimedOut>>
    /\ UNCHANGED <<failedMessages, escaped>>
    /\ UNCHANGED <<pipeVars, syncVars, auxVars>>

\* The open connection ends without the page closing it: the network drops
\* it (wasClean false) or the server closes it with a close frame (true).
ConnectionEnds ==
    /\ ws = "open"
    /\ ws' = "closed"
    /\ \E wasClean \in (IF serverUp THEN BOOLEAN ELSE {FALSE}) : handleClose(wasClean)
    /\ UNCHANGED <<wsRef, missedHeartbeats, disconnected, serverUp, hbTimedOut,
                   attempt>>
    /\ UNCHANGED <<failedMessages, escaped>>
    /\ UNCHANGED <<pipeVars, syncVars, auxVars>>

\* The close event of a socket the page closed with ws.close(): clean when
\* the server answered the close frame, not clean when the handshake timed
\* out or the socket had not opened yet (a server that is away never answers).
CloseComplete ==
    /\ ws = "closing"
    /\ ws' = "closed"
    /\ \E wasClean \in (IF serverUp THEN BOOLEAN ELSE {FALSE}) : handleClose(wasClean)
    /\ UNCHANGED <<wsRef, missedHeartbeats, disconnected, serverUp, hbTimedOut,
                   attempt>>
    /\ UNCHANGED <<failedMessages, escaped>>
    /\ UNCHANGED <<pipeVars, syncVars, auxVars>>

\* One tick of the heartbeat interval with the socket OPEN:
\* missedHeartbeats++; at maxMissedHeartbeats ws.close() and return,
\* otherwise send a heartbeat. (With the socket not OPEN the tick does nothing.)
HeartbeatTick ==
    /\ heartbeatInterval /\ wsRef /\ ws = "open"
    /\ missedHeartbeats' = missedHeartbeats + 1
    /\ IF missedHeartbeats + 1 >= maxMissedHeartbeats
       THEN /\ ws' = "closing"
            /\ hbTimedOut' = TRUE
            /\ reconnectsSinceTimeout' = 0
       ELSE UNCHANGED <<ws, hbTimedOut, reconnectsSinceTimeout>>
    /\ UNCHANGED <<wsRef, isConnected, isReconnecting, reconnectTimer,
                   heartbeatInterval, disconnected, serverUp, attempt>>
    /\ UNCHANGED <<failedMessages, escaped>>
    /\ UNCHANGED <<pipeVars, syncVars, auxVars>>

\* handleMessage, case 'heartbeat': missedHeartbeats = 0
HeartbeatMessage ==
    /\ ws \in {"open", "closing"} /\ wsRef /\ serverUp
    /\ missedHeartbeats' = 0
    /\ UNCHANGED <<ws, wsRef, isConnected, isReconnecting, reconnectTimer,
                   heartbeatInterval, disconnected, serverUp, hbTimedOut,
                   reconnectsSinceTimeout, attempt>>
    /\ UNCHANGED <<failedMessages, escaped>>
    /\ UNCHANGED <<pipeVars, syncVars, auxVars>>

\* What can go wrong with a push message. badjson: event.data is not JSON.
\* nodata_change, nodata_batch: message.data is missing. nooperation:
\* changeData.operation is missing. norecord: operation 'delete' without a
\* record. store_change, store_batch: the store call rejects.
\* callback_change, callback_batch: onSyncUpdate throws.
DataChangeFailures ==
    {"nodata_change", "nooperation", "norecord", "store_change", "callback_change"}
BatchUpdateFailures == {"nodata_batch", "store_batch", "callback_batch"}
MessageFailures == {"badjson"} \cup DataChangeFailures \cup BatchUpdateFailures

\* handleDataChange(changeData): the destructuring of changeData is in front
\* of the try block, everything else inside it.
handleDataChange(f) ==
    IF f = "nodata_change" THEN "throws"
    ELSE IF f \in DataChangeFailures THEN "caught"
    ELSE "done"

\* handleBatchUpdate(batchData): the same shape.
handleBatchUpdate(f) ==
    IF f = "nodata_batch" THEN "throws"
    ELSE IF f \in BatchUpdateFailures THEN "caught"
    ELSE "done"

\* a message handler without its try block
handleMessage_notry(f) ==
    IF f = "badjson" THEN "throws"
    ELSE IF f \in DataChangeFailures THEN handleDataChange(f)
    ELSE IF f \in BatchUpdateFailures THEN handleBatchUpdate(f)
    ELSE "done"

\* handleMessage(event): JSON.parse and the awaited handlers are inside one
\* try block whose catch logs.
handleMessage(f) ==
    IF f = "badjson" THEN "caught"
    ELSE LET r == IF f \in DataChangeFailures THEN handleDataChange(f)
                  ELSE IF f \in BatchUpdateFailures THEN handleBatchUpdate(f)
                  ELSE "done"
         IN IF r = "throws" THEN "caught" ELSE r

\* onmessage with a message whose handling fails; the failing call has
\* written nothing.
MessageFails(f) ==
    /\ ws \in {"open", "closing"} /\ wsRef /\ serverUp
    /\ failedMessages < MaxFailedMessages
    /\ failedMessages' = failedMessages + 1
    /\ escaped' = (escaped \/ handleMessage(f) = "throws")
    /\ UNCHANGED <<ws, wsRef, isConnected, isReconnecting, reconnectTimer,
                   heartbeatInterval, missedHeartbeats, disconnected, serverUp,
                   hbTimedOut, reconnectsSinceTimeout, attempt>>
    /\ UNCHANGED <<pipeVars, syncVars, auxVars>>

\* The timer of scheduleReconnect fires: connect().
ReconnectTimerFire ==
    /\ reconnectTimer
    /\ reconnectTimer' = FALSE
    /\ IF connectSkips
       THEN UNCHANGED <<ws, wsRef, attempt>>
       ELSE /\ ws' = "connecting"
            /\ wsRef' = TRUE
            /\ attempt' = "pending"
    /\ UNCHANGED <<isConnected, isReconnecting, heartbeatInterval,
                   missedHeartbeats, disconnected, serverUp, hbTimedOut,
                   reconnectsSinceTimeout>>
    /\ UNCHANGED <<failedMessages, escaped>>
    /\ UNCHANGED <<pipeVars, syncVars, auxVars>>

\* disconnect(): isReconnecting = false; clearTimeout; stopHeartbeat;
\* ws.close(); ws = null; isConnected = false.
Disconnect ==
    /\ wsRef \/ reconnectTimer
    /\ isReconnecting' = FALSE
    /\ reconnectTimer' = FALSE
    /\ heartbeatInterval' = FALSE
    /\ ws' = IF wsRef /\ ws \in {"connecting", "open"} THEN "closing" ELSE ws
    /\ wsRef' = FALSE
    /\ isConnected' = FALSE
    /\ disconnected' = TRUE
    /\ hbTimedOut' = FALSE
    /\ attempt' = "none"
    /\ UNCHANGED <<missedHeartbeats, serverUp, reconnectsSinceTimeout>>
    /\ UNCHANGED <<failedMessages, escaped>>
    /\ UNCHANGED <<pipeVars, syncVars, auxVars>>

\* The push server goes away or comes back.
ServerToggle ==
    /\ serverUp' = ~serverUp
    /\ UNCHANGED <<ws, wsRef, isConnected, isReconnecting, reconnectTimer,
                   heartbeatInterval, missedHeartbeats, disconnected,
                   hbTimedOut, reconnectsSinceTimeout, attempt>>
    /\ UNCHANGED <<failedMessages, escaped>>
    /\ UNCHANGED <<pipeVars, syncVars, auxVars>>

NextWs ==
    \/ ServerToggle
    \/ Connect
    \/ handleOpen
    \/ SocketFail
    \/ ConnectionEnds
    \/ CloseComplete
    \/ HeartbeatTick
    \/ HeartbeatMessage
    \/ \E f \in MessageFailures : MessageFails(f)
    \/ ReconnectTimerFire
    \/ Disconnect

\* ================================================================ records API
Times == 1..NumTimes
RowCounts == {0, 1, ManyRows}
NoRequest == [startDate |-> 0, endDate |-> 0, page |-> 0, limit |-> 0,
              no_limit |-> FALSE, sent |-> FALSE]
NoResponse == [records |-> [t \in Times |-> 0], total |-> 0, page |-> 0,
               limit |-> 0]

\* A query parameter that is absent (or does not parse) is 0.
Queries ==
    [startDate : 0..NumTimes, endDate : 0..NumTimes, page : {0, 2},
     limit : {0, 2 * maxLimit}, no_limit : BOOLEAN, sent : {TRUE}]

\* getRecords of lib/db-mysql: WHERE start_time >= ? AND start_time <= ?
\* ORDER BY start_time DESC LIMIT offset, limit. The rows of one start_time
\* are told apart only by their number.
Matches(t, options) ==
    /\ (options.startDate # 0) => t >= options.startDate
    /\ (options.endDate # 0) => t <= options.endDate

getRecords(tbl, options) ==
    LET offset == (options.page - 1) * options.limit
        matching == [t \in Times |-> IF Matches(t, options) THEN tbl[t] ELSE 0]
        before(t) == SumTo([u \in Times |-> IF u > t THEN matching[u] ELSE 0],
                           NumTimes)
        taken(t) == Max(0, Min(before(t) + matching[t], offset + options.limit)
                            - Max(before(t), offset))
    IN [records |-> [t \in Times |-> taken(t)],
        total |-> SumTo(matching, NumTimes),
        page |-> options.page,
        limit |-> options.limit]

\* exports.handler of records.js: page and limit are parsed, the limit is
\* capped; no other query parameter than the eight it destructures is read.
handler(tbl, query) ==
    getRecords(tbl,
        [page |-> IF query.page = 0 THEN 1 ELSE query.page,
         limit |-> Min(IF query.limit = 0 THEN defaultLimit ELSE query.limit,
                       maxLimit),
         startDate |-> query.startDate,
         endDate |-> query.endDate])

InitApi ==
    /\ table \in [Times -> RowCounts]
    /\ request = NoRequest
    /\ response = NoResponse

ApiOff == InitApi /\ table = [t \in Times |-> 0]

GetRecords(query) ==
    /\ request' = query
    /\ response' = handler(table, query)
    /\ UNCHANGED table
    /\ UNCHANGED <<pipeVars, syncVars, wsVars, genVars, incVars, extVars>>

NextApi == \E query \in Queries : GetRecords(query)

\* ================================================================ shard generator
\* A Date is a month counted from January of year 0, a day of the month and
\* a time of day: 0 is 00:00:00.000, 1 is noon, 2 is 23:59:59.999.
MonthDays == <<31, 28, 31, 30, 31, 30, 31, 31, 30, 31, 30, 31>>
DaysIn(m) == MonthDays[(m % 12) + 1]
Date(m, d, h) == [m |-> m, d |-> d, h |-> h]
Before(a, b) ==
    \/ a.m < b.m
    \/ a.m = b.m /\ a.d < b.d
    \/ a.m = b.m /\ a.d = b.d /\ a.h < b.h
NotAfter(a, b) == a = b \/ Before(a, b)
Dates ==
    {x \in [m : 0..MaxMonth, d : {1, 15, 28, 29, 30, 31}, h : 0..2] :
        x.d <= DaysIn(x.m)}

\* a step of one month instead of three
setMonth3_one(current) ==
    LET m == current.m + 1
    IN IF current.d > DaysIn(m)
       THEN Date(m + 1, current.d - DaysIn(m), current.h)
       ELSE Date(m, current.d, current.h)

\* Date.setMonth(getMonth() + 3): the day of the month is kept, and a day
\* the new month does not have runs over into the month after it.
setMonth3(current) ==
    LET m == current.m + 3
    IN IF current.d > DaysIn(m)
       THEN Date(m + 1, current.d - DaysIn(m), current.h)
       ELSE Date(m, current.d, current.h)

quarterId(m) == [year |-> m \div 12, quarter |-> ((m % 12) \div 3) + 1]

\* One pass of the while loop of generateYearQuarterShards.
quarterShard(current, from, to) ==
    LET q == current.m \div 3
        qStart == Date(q * 3, 1, 0)
        qEnd == Date(q * 3 + 2, DaysIn(q * 3 + 2), 2)
    IN [partitionId |-> quarterId(current.m),
        start |-> IF Before(qStart, from) THEN from ELSE qStart,
        end |-> IF Before(to, qEnd) THEN to ELSE qEnd]

RECURSIVE shardLoop(_, _, _, _)
shardLoop(current, from, to, shards) ==
    IF Before(current, to)
    THEN shardLoop(setMonth3(current), from, to,
                   Append(shards, quarterShard(current, from, to)))
    ELSE shards

generateYearQuarterShards(from, to) ==
    shardLoop(Date(from.m, from.d, 0), from, to, <<>>)

InitGen ==
    /\ startDate \in Dates
    /\ endDate \in Dates
    /\ Before(startDate, endDate)
    /\ quarterShards = <<>>
    /\ generated = FALSE

GenOff ==
    /\ startDate = Date(0, 1, 0)
    /\ endDate = Date(0, 1, 1)
    /\ quarterShards = <<>>
    /\ generated = FALSE

GenerateShards ==
    /\ ~generated
    /\ quarterShards' = generateYearQuarterShards(startDate, endDate)
    /\ generated' = TRUE
    /\ UNCHANGED <<startDate, endDate>>
    /\ UNCHANGED <<pipeVars, syncVars, wsVars, apiVars, incVars, extVars>>

NextGen == GenerateShards

\* ================================================================ incremental load
IW == 1..Min(STORAGE_WORKERS, MaxIncWorkers)

\* From the top of the storage worker's while loop to its next await
\* (the 10 ms sleep or the appendData call) or to its end.
RECURSIVE incScan(_, _, _)
incScan(queue, pendingBatch, complete) ==
    IF ~(~complete \/ queue # <<>> \/ pendingBatch > 0)
    THEN [pc |-> "done", queue |-> queue, pendingBatch |-> pendingBatch]
    ELSE IF queue = <<>> /\ pendingBatch < MinBatch /\ ~complete
    THEN [pc |-> "sleep", queue |-> queue, pendingBatch |-> pendingBatch]
    ELSE LET shifted == IF queue # <<>> THEN Tail(queue) ELSE queue
             merged == IF queue # <<>> THEN pendingBatch + Head(queue)
                       ELSE pendingBatch
             shouldFlush == merged >= MinBatch \/ (complete /\ shifted = <<>>)
         IN IF shouldFlush /\ merged > 0
            THEN [pc |-> "append", queue |-> shifted, pendingBatch |-> merged]
            ELSE incScan(shifted, merged, complete)

\* The transactions of appendData all have the metadata store in their
\* scope and are readwrite: they run one at a time in the order in which
\* they were opened.
\* appendData(pendingBatch) of worker w opens its data transaction.
openData(tx, w, n) == Append(tx, [kind |-> "data", worker |-> w, n |-> n])

\* transaction.oncomplete of appendData opens the metadata transaction of
\* the call, behind the transactions that are open already.
openMeta(tx, w, n) == Append(tx, [kind |-> "meta", worker |-> w, n |-> n])

\* The worker's record and the open transactions once its loop has reached
\* the next await.
incResume(tx, w, r) ==
    [w |-> [pc |-> r.pc, pendingBatch |-> r.pendingBatch],
     tx |-> IF r.pc = "append" THEN openData(tx, w, r.pendingBatch) ELSE tx]

InitInc ==
    /\ incPc = "download"
    /\ incFetched = 0
    /\ storageQueue = <<>>
    /\ incDownloadComplete = FALSE
    /\ isw = [w \in IW |-> [pc |-> "sleep", pendingBatch |-> 0]]
    /\ incStored = 0
    /\ incMeta = 0
    /\ incTx = <<>>
    /\ incTotalLoaded = 0
    /\ incFailed = 0

IncOff == InitInc

\* A download worker's fetchShardData returns n preprocessed records
\* (none when the fetch failed); a non-empty result is pushed.
IncFetchReturn(n) ==
    /\ incPc = "download"
    /\ incFetched < NumIncShards
    /\ incFetched' = incFetched + 1
    /\ storageQueue' = IF n > 0 THEN Append(storageQueue, n) ELSE storageQueue
    /\ UNCHANGED <<incPc, incDownloadComplete, isw, incStored, incMeta,
                   incTx, incTotalLoaded, incFailed>>
    /\ UNCHANGED <<pipeVars, syncVars, wsVars, apiVars, genVars, extVars>>

\* await Promise.all(downloadWorkers); downloadComplete = true
IncDownloadsJoined ==
    /\ incPc = "download"
    /\ incFetched = NumIncShards
    /\ incDownloadComplete' = TRUE
    /\ incPc' = "storage"
    /\ UNCHANGED <<incFetched, storageQueue, isw, incStored, incMeta,
                   incTx, incTotalLoaded, incFailed>>
    /\ UNCHANGED <<pipeVars, syncVars, wsVars, apiVars, genVars, extVars>>

\* The 10 ms sleep of storage worker w ends.
IncStorageWake(w) ==
    /\ isw[w].pc = "sleep"
    /\ LET r == incScan(storageQueue, isw[w].pendingBatch, incDownloadComplete)
           c == incResume(incTx, w, r)
       IN /\ isw' = [isw EXCEPT ![w] = c.w]
          /\ incTx' = c.tx
          /\ storageQueue' = r.queue
    /\ UNCHANGED <<incPc, incFetched, incDownloadComplete, incStored, incMeta,
                   incTotalLoaded, incFailed>>
    /\ UNCHANGED <<pipeVars, syncVars, wsVars, apiVars, genVars, extVars>>

\* The data transaction of worker w's appendData commits: oncomplete opens
\* the metadata transaction and resolves; the worker adds to totalLoaded,
\* empties its buffer and goes on with its loop.
IncAppendCommitted(w) ==
    /\ incTx # <<>>
    /\ Head(incTx).kind = "data" /\ Head(incTx).worker = w
    /\ LET n == Head(incTx).n
           r == incScan(storageQueue, 0, incDownloadComplete)
           c == incResume(openMeta(Tail(incTx), w, n), w, r)
       IN /\ incStored' = incStored + n
          /\ incTotalLoaded' = incTotalLoaded + n
          /\ isw' = [isw EXCEPT ![w] = c.w]
          /\ incTx' = c.tx
          /\ storageQueue' = r.queue
    /\ UNCHANGED <<incPc, incFetched, incDownloadComplete, incMeta, incFailed>>
    /\ UNCHANGED <<pipeVars, syncVars, wsVars, apiVars, genVars, extVars>>

\* The data transaction fails: appendData rejects, the catch block of the
\* worker empties the buffer; nothing is stored and no metadata is written.
IncAppendRejects(w) ==
    /\ incTx # <<>>
    /\ Head(incTx).kind = "data" /\ Head(incTx).worker = w
    /\ LET n == Head(incTx).n
           r == incScan(storageQueue, 0, incDownloadComplete)
           c == incResume(Tail(incTx), w, r)
       IN /\ incFailed' = incFailed + n
          /\ isw' = [isw EXCEPT ![w] = c.w]
          /\ incTx' = c.tx
          /\ storageQueue' = r.queue
    /\ UNCHANGED <<incPc, incFetched, incDownloadComplete, incStored, incMeta,
                   incTotalLoaded>>
    /\ UNCHANGED <<pipeVars, syncVars, wsVars, apiVars, genVars, extVars>>

\* The oldest open transaction is a metadata transaction and runs: get,
\* totalCount += appendedCount, put.
IncMetaWrite ==
    /\ incTx # <<>>
    /\ Head(incTx).kind = "meta"
    /\ incMeta' = incMeta + Head(incTx).n
    /\ incTx' = Tail(incTx)
    /\ UNCHANGED <<incPc, incFetched, storageQueue, incDownloadComplete, isw,
                   incStored, incTotalLoaded, incFailed>>
    /\ UNCHANGED <<pipeVars, syncVars, wsVars, apiVars, genVars, extVars>>

\* await Promise.all(storageWorkers); return
IncStorageJoined ==
    /\ incPc = "storage"
    /\ \A w \in IW : isw[w].pc = "done"
    /\ incPc' = "done"
    /\ UNCHANGED <<incFetched, storageQueue, incDownloadComplete, isw,
                   incStored, incMeta, incTx, incTotalLoaded, incFailed>>
    /\ UNCHANGED <<pipeVars, syncVars, wsVars, apiVars, genVars, extVars>>

NextInc ==
    \/ \E n \in 0..MaxShardSize : IncFetchReturn(n)
    \/ IncDownloadsJoined
    \/ \E w \in IW : IncStorageWake(w)
    \/ \E w \in IW : IncAppendCommitted(w)
    \/ \E w \in IW : IncAppendRejects(w)
    \/ IncMetaWrite
    \/ IncStorageJoined

\* ------------------------------------------------------ record keys
\* A record on the wire carries its plan_id; whether it also carries an id
\* field, and which, is the service's choice: none, the plan_id again, or the
\* row id of the table. The payload v stands for the other fields.
PlanIds == 1..NumPlans
NoId == 0
RowId(p) == 10 + p
Payloads == 1..MaxPayload
IdShapes == {"absent", "plan_id", "row"}

wireId(p) ==
    CASE idShape = "absent" -> NoId
      [] idShape = "plan_id" -> p
      [] idShape = "row" -> RowId(p)

wireRecord(p, v) == [plan_id |-> p, id |-> wireId(p), v |-> v]

Keys == PlanIds \cup {RowId(p) : p \in PlanIds}
NoEntry == [plan_id |-> 0, v |-> 0]

\* { id: record.plan_id || ... || record.id || ..., ...record }: the spread
\* comes last, so an id field of the record replaces the id just derived
\* from plan_id.
standardRecord(record) ==
    [record EXCEPT !.id = IF record.id # NoId THEN record.id ELSE record.plan_id]

\* records.map(record => ({ ...record, id: record.plan_id }))
convertedRecord(record) == [record EXCEPT !.id = record.plan_id]

\* store.put(record) on a store with keyPath 'id' and no key generator: a
\* record without id makes put throw a DataError.
putThrows(record) == record.id = NoId

put(store, record) ==
    [store EXCEPT ![record.id] = [plan_id |-> record.plan_id, v |-> record.v]]

\* put of each record of a batch; records of different plan_id never share
\* a key, so the order of the puts does not matter.
putEach(store, ids, rec(_)) ==
    [k \in Keys |->
        IF \E p \in ids : rec(p).id = k
        THEN LET p == CHOOSE q \in ids : rec(q).id = k
             IN [plan_id |-> rec(p).plan_id, v |-> rec(p).v]
        ELSE store[k]]

Batches == (SUBSET PlanIds) \ {{}}

InitKeys ==
    /\ idShape \in IdShapes
    /\ allData = [k \in Keys |-> NoEntry]
    /\ putFailed = FALSE

KeysOff == InitKeys /\ idShape = "plan_id"

\* Bulk load: preprocessRecords in the download worker, then storeBatch,
\* which derives the id the same way; the derived id is never absent.
BulkStore(ids, v) ==
    /\ allData' = putEach(allData, ids,
                          LAMBDA p : standardRecord(standardRecord(wireRecord(p, v))))
    /\ putFailed' = FALSE
    /\ UNCHANGED idShape
    /\ UNCHANGED keyRest

\* Incremental load: appendData derives the id as storeBatch does.
IncrementalAppend(ids, v) ==
    /\ allData' = putEach(allData, ids,
                          LAMBDA p : standardRecord(wireRecord(p, v)))
    /\ putFailed' = FALSE
    /\ UNCHANGED idShape
    /\ UNCHANGED keyRest

\* Catch-up: performCatchupSyncByChangeLogId sets id to plan_id and calls
\* batchUpdateRecords.
CatchupUpdate(ids, v) ==
    /\ allData' = putEach(allData, ids,
                          LAMBDA p : convertedRecord(wireRecord(p, v)))
    /\ putFailed' = FALSE
    /\ UNCHANGED idShape
    /\ UNCHANGED keyRest

\* Push data_change insert/update: updateRecord puts the record as it came.
\* When put throws, handleDataChange catches and nothing is stored.
PushUpdate(p, v) ==
    LET record == wireRecord(p, v)
    IN /\ allData' = IF putThrows(record) THEN allData ELSE put(allData, record)
       /\ putFailed' = putThrows(record)
       /\ UNCHANGED idShape
       /\ UNCHANGED keyRest

\* Push data_change delete: deleteRecord(record.id). store.delete(undefined)
\* throws a DataError, which handleDataChange catches.
PushDelete(p) ==
    LET record == wireRecord(p, 1)
    IN /\ allData' = IF putThrows(record) THEN allData
                     ELSE [allData EXCEPT ![record.id] = NoEntry]
       /\ putFailed' = putThrows(record)
       /\ UNCHANGED idShape
       /\ UNCHANGED keyRest

\* Push batch_update: batchUpdateRecords puts the records as they came. The
\* first put that throws rejects the call before any request was made.
PushBatchUpdate(ids, v) ==
    LET throws == \E p \in ids : putThrows(wireRecord(p, v))
    IN /\ allData' = IF throws THEN allData
                     ELSE putEach(allData, ids, LAMBDA p : wireRecord(p, v))
       /\ putFailed' = throws
       /\ UNCHANGED idShape
       /\ UNCHANGED keyRest

NextKeys ==
    \/ \E ids \in Batches, v \in Payloads : BulkStore(ids, v)
    \/ \E ids \in Batches, v \in Payloads : IncrementalAppend(ids, v)
    \/ \E ids \in Batches, v \in Payloads : CatchupUpdate(ids, v)
    \/ \E p \in PlanIds, v \in Payloads : PushUpdate(p, v)
    \/ \E p \in PlanIds : PushDelete(p)
    \/ \E ids \in Batches, v \in Payloads : PushBatchUpdate(ids, v)

\* ------------------------------------------------------ preload and refresh
\* autoPreloadAllData as the cache sees it, page load after page load: the
\* cache check, then parallelShardedLoad's clearAllData, its shard fetches
\* (each shard's records stored as they arrive) and its metadata save.
Pending == -1
Failed == -2
NoCount == -1

InitReload ==
    /\ preloadPc = "idle"
    /\ shardFetch = [i \in Shards |-> Pending]
    /\ cacheRecords = 0
    /\ cacheMeta = NoCount
    /\ atStart = [records |-> 0, meta |-> NoCount]
    /\ allFailed = FALSE

ReloadOff == InitReload

\* checkAllDataCache, then: with a non-empty cache and no forceReload the
\* cache is used as it is; otherwise parallelShardedLoad starts.
autoPreloadAllData(forceReload) ==
    /\ preloadPc = "idle"
    /\ atStart' = [records |-> cacheRecords, meta |-> cacheMeta]
    /\ preloadPc' = IF ~forceReload /\ cacheMeta > 0 THEN "idle" ELSE "clear"
    /\ shardFetch' = [i \in Shards |-> Pending]
    /\ allFailed' = FALSE
    /\ UNCHANGED <<cacheRecords, cacheMeta>>
    /\ UNCHANGED reloadRest

\* await cacheManager.clearAllData(): the record store and the shard index
\* are cleared before any shard is requested; 'allDataMeta' is not touched.
PreloadClearAllData ==
    /\ preloadPc = "clear"
    /\ cacheRecords' = 0
    /\ preloadPc' = "load"
    /\ UNCHANGED <<shardFetch, cacheMeta, atStart, allFailed>>
    /\ UNCHANGED reloadRest

\* A shard's fetch returns n records, which are stored.
ShardLoaded(i, n) ==
    /\ preloadPc = "load"
    /\ shardFetch[i] = Pending
    /\ shardFetch' = [shardFetch EXCEPT ![i] = n]
    /\ cacheRecords' = cacheRecords + n
    /\ UNCHANGED <<preloadPc, cacheMeta, atStart, allFailed>>
    /\ UNCHANGED reloadRest

\* A shard's fetch fails (network error, status, format): fetchShardData
\* catches, logs and returns [], and the download worker goes on.
ShardFails(i) ==
    /\ preloadPc = "load"
    /\ shardFetch[i] = Pending
    /\ shardFetch' = [shardFetch EXCEPT ![i] = Failed]
    /\ UNCHANGED <<preloadPc, cacheRecords, cacheMeta, atStart, allFailed>>
    /\ UNCHANGED reloadRest

\* All workers joined: saveMetadataAndShardIndex(totalLoaded, ...), whatever
\* the fetches returned.
PreloadSaveMetadata ==
    /\ preloadPc = "load"
    /\ \A i \in Shards : shardFetch[i] # Pending
    /\ cacheMeta' = cacheRecords
    /\ allFailed' = \A i \in Shards : shardFetch[i] = Failed
    /\ preloadPc' = "idle"
    /\ UNCHANGED <<shardFetch, cacheRecords, atStart>>
    /\ UNCHANGED reloadRest

NextReload ==
    \/ \E forceReload \in BOOLEAN : autoPreloadAllData(forceReload)
    \/ PreloadClearAllData
    \/ \E i \in Shards, n \in 0..MaxShardSize : ShardLoaded(i, n)
    \/ \E i \in Shards : ShardFails(i)
    \/ PreloadSaveMetadata

\* ------------------------------------------------------ normalize
\* The start_time of a record as the shard query returns it: a string
\* 'YYYY-MM-DD HH:MM:SS', an ISO string with T and Z, a number of seconds, or
\* a string that is no date. A shard query selects by start_time, so every
\* record it returns has one.
Forms == {"plain", "iso", "seconds", "text"}
StartTimes ==
    [form : Forms \ {"text"}, t : 1..NumStartTimes] \cup {[form |-> "text", t |-> 0]}
RawRecords == [plan_id : PlanIds, start_time : StartTimes]

\* parseTimeToTimestamp: numbers are taken as seconds or milliseconds,
\* strings are stripped of T, Z and a zone offset and parsed as local time,
\* and a string that does not parse gives 0.
parseTimeToTimestamp(timeValue) ==
    CASE timeValue.form = "seconds" -> timeValue.t
      [] timeValue.form \in {"plain", "iso"} -> timeValue.t
      [] timeValue.form = "text" -> 0

\* One pass of the for loop of preprocessRecords: the standard record with
\* its timestamp.
withTimestamp(record) ==
    [plan_id |-> record.plan_id, start_time |-> record.start_time,
     timestamp |-> parseTimeToTimestamp(record.start_time)]

\* an insertion that drops a record whose timestamp is already there
insertByTimestamp_unique(x, s) ==
    LET before == SelectSeq(s, LAMBDA y : y.timestamp < x.timestamp)
        after == SelectSeq(s, LAMBDA y : y.timestamp > x.timestamp)
    IN before \o <<x>> \o after

\* processed.sort((a, b) => (a.timestamp || 0) - (b.timestamp || 0)) is a
\* stable sort: records of equal timestamp keep their order.
insertByTimestamp(x, s) ==
    LET before == SelectSeq(s, LAMBDA y : y.timestamp < x.timestamp)
        after == SelectSeq(s, LAMBDA y : y.timestamp >= x.timestamp)
    IN before \o <<x>> \o after

RECURSIVE sortByTimestamp(_)
sortByTimestamp(s) ==
    IF s = <<>> THEN <<>>
    ELSE insertByTimestamp(Head(s), sortByTimestamp(Tail(s)))

\* preprocessRecords(records) on whole records.
processedRecords(records) ==
    sortByTimestamp([k \in 1..Len(records) |-> withTimestamp(records[k])])

RawResponses == UNION {[1..n -> RawRecords] : n \in 0..MaxRawLen}

InitNorm ==
    /\ rawRecords \in RawResponses
    /\ processed = <<>>
    /\ preprocessed = FALSE

NormOff == InitNorm /\ rawRecords = <<>>

\* fetchShardData: const processedRecords = this.preprocessRecords(records)
Preprocess ==
    /\ ~preprocessed
    /\ processed' = processedRecords(rawRecords)
    /\ preprocessed' = TRUE
    /\ UNCHANGED rawRecords
    /\ UNCHANGED normRest

NextNorm == Preprocess

\* ------------------------------------------------------ paginated load
InitPage ==
    /\ pagePc = "idle"
    /\ pageOffset = 0
    /\ currentPage = 1
    /\ consecutiveEmptyPages = 0
    /\ allData_length = 0

PageOff == InitPage

\* fetchSinglePageFromAPI(params): the query string carries offset, limit,
\* order_by and sort; of these the handler reads limit only.
pageQuery ==
    [startDate |-> 0, endDate |-> 0, page |-> 0, limit |-> pageSize,
     no_limit |-> FALSE, sent |-> TRUE]

\* fetchAllDataWithPagination is called and sends its first request.
StartPagination ==
    /\ pagePc = "idle"
    /\ pagePc' = "loop"
    /\ UNCHANGED <<pageOffset, currentPage, consecutiveEmptyPages, allData_length>>
    /\ UNCHANGED <<apiVars, pageRest>>

\* One pass of the while loop: the page's request is answered by the
\* records endpoint and the loop variables are updated.
PageReturns ==
    /\ pagePc = "loop"
    /\ currentPage <= MaxPages
    /\ request' = pageQuery
    /\ response' = handler(table, pageQuery)
    /\ LET pageData_length == SumTo(response'.records, NumTimes)
       IN IF pageData_length > 0
          THEN /\ allData_length' = allData_length + pageData_length
               /\ consecutiveEmptyPages' = 0
               /\ pageOffset' = pageOffset + pageSize
               /\ currentPage' = currentPage + 1
               /\ pagePc' = "loop"
          ELSE /\ consecutiveEmptyPages' = consecutiveEmptyPages + 1
               /\ IF consecutiveEmptyPages + 1 >= maxEmptyPages
                  THEN /\ pagePc' = "returned"
                       /\ UNCHANGED <<pageOffset, currentPage>>
                  ELSE /\ pagePc' = "loop"
                       /\ pageOffset' = pageOffset + pageSize
                       /\ currentPage' = currentPage + 1
               /\ UNCHANGED allData_length
    /\ UNCHANGED table
    /\ UNCHANGED pageRest

\* The request fails (network error, non-OK status, success false):
\* fetchSinglePageFromAPI throws and fetchAllDataWithPagination rethrows.
PageThrows ==
    /\ pagePc = "loop"
    /\ currentPage <= MaxPages
    /\ pagePc' = "thrown"
    /\ UNCHANGED <<pageOffset, currentPage, consecutiveEmptyPages, allData_length>>
    /\ UNCHANGED <<apiVars, pageRest>>

NextPage ==
    \/ StartPagination
    \/ PageReturns
    \/ PageThrows

\* ------------------------------------------------------------ page start
StartRuns == 1..2

NoRun == [pc |-> "none", hasNewData |-> FALSE]

\* return { hasNewData: false, count: 0 }
NoNewData == [pc |-> "returned", hasNewData |-> FALSE]

InitStart ==
    /\ startPc = "loading"
    /\ catchupRun = [r \in StartRuns |-> NoRun]
    /\ catchupCalls = 0
    /\ storedCursor \in 0..1
    /\ cacheAge \in {"none", "fresh", "old"}
    /\ preload = "none"
    /\ background = "none"
    /\ appCreated = FALSE
    /\ socket = "none"
    /\ wsUrl \in BOOLEAN
    /\ hidden = FALSE

StartOff ==
    /\ startPc = "loading"
    /\ catchupRun = [r \in StartRuns |-> NoRun]
    /\ catchupCalls = 0
    /\ storedCursor = 0
    /\ cacheAge = "none"
    /\ preload = "none"
    /\ background = "none"
    /\ appCreated = FALSE
    /\ socket = "none"
    /\ wsUrl = TRUE
    /\ hidden = FALSE

\* checkAndPerformCatchup() is called: it runs up to its first await,
\* getLastChangeLogId.
callCatchup(r) ==
    /\ catchupRun' = [catchupRun EXCEPT ![r] = [NoRun EXCEPT !.pc = "cursor"]]
    /\ catchupCalls' = catchupCalls + 1

\* DOMContentLoaded: the handler runs up to
\* await wsSyncManager.checkAndPerformCatchup(...)
DOMContentLoaded ==
    /\ startPc = "loading"
    /\ startPc' = "catchup"
    /\ callCatchup(1)
    /\ UNCHANGED <<storedCursor, cacheAge, preload, background, appCreated,
                   socket, wsUrl, hidden>>
    /\ UNCHANGED startRest

\* getLastChangeLogId answers the call r: 0 ends the call with no new data
\* (first load), a rejection is caught and ends it the same way, anything
\* else is sent to the server as sinceChangeLogId.
CursorRead(r) ==
    /\ catchupRun[r].pc = "cursor"
    /\ \E rejects \in BOOLEAN :
         catchupRun' = [catchupRun EXCEPT ![r] =
                          IF rejects \/ isFirstLoad(storedCursor) THEN NoNewData
                          ELSE [NoRun EXCEPT !.pc = "fetch"]]
    /\ UNCHANGED <<startPc, catchupCalls, storedCursor, cacheAge, preload,
                   background, appCreated, socket, wsUrl, hidden>>
    /\ UNCHANGED startRest

\* performCatchupSyncByChangeLogId: the request of call r is answered. A
\* failure or an empty record list ends the call with no new data;
\* otherwise batchUpdateRecords is called.
CatchupAnswered(r) ==
    /\ catchupRun[r].pc = "fetch"
    /\ \E failed \in BOOLEAN, n \in 0..1 :
         catchupRun' = [catchupRun EXCEPT ![r] =
                          IF failed \/ n = 0 THEN NoNewData
                          ELSE [NoRun EXCEPT !.pc = "apply"]]
    /\ UNCHANGED <<startPc, catchupCalls, storedCursor, cacheAge, preload,
                   background, appCreated, socket, wsUrl, hidden>>
    /\ UNCHANGED startRest

\* batchUpdateRecords of call r resolves (saveLastChangeLogId is called
\* next) or rejects (caught: no new data).
CatchupWritten(r) ==
    /\ catchupRun[r].pc = "apply"
    /\ \E rejects \in BOOLEAN :
         catchupRun' = [catchupRun EXCEPT ![r] =
                          IF rejects THEN NoNewData
                          ELSE [NoRun EXCEPT !.pc = "save"]]
    /\ UNCHANGED <<startPc, catchupCalls, storedCursor, cacheAge, preload,
                   background, appCreated, socket, wsUrl, hidden>>
    /\ UNCHANGED startRest

\* saveLastChangeLogId of call r resolves and the call returns
\* hasNewData: true, or it rejects (caught: no new data).
CatchupSaved(r) ==
    /\ catchupRun[r].pc = "save"
    /\ \E rejects \in BOOLEAN :
         IF rejects
         THEN /\ catchupRun' = [catchupRun EXCEPT ![r] = NoNewData]
              /\ UNCHANGED storedCursor
         ELSE /\ catchupRun' = [catchupRun EXCEPT ![r] =
                                  [pc |-> "returned", hasNewData |-> TRUE]]
              /\ storedCursor' = 1
    /\ UNCHANGED <<startPc, catchupCalls, cacheAge, preload, background,
                   appCreated, socket, wsUrl, hidden>>
    /\ UNCHANGED startRest

\* a handler that calls checkAndPerformCatchup without awaiting it
catchupResult_unawaited(r) == TRUE

\* const catchupResult = await wsSyncManager.checkAndPerformCatchup(...):
\* the handler goes on when its call has returned.
catchupResult(r) == catchupRun[r].pc = "returned"

\* The handler goes on after its catch-up: with new data it awaits
\* clearDataStoreBucketsCache, without it calls autoPreloadAllData, which
\* runs up to await cacheManager.checkAllDataCache().
CatchupReturns ==
    /\ startPc = "catchup"
    /\ catchupResult(1)
    /\ IF catchupRun[1].hasNewData
       THEN /\ startPc' = "clear"
            /\ UNCHANGED preload
       ELSE /\ startPc' = "preload"
            /\ preload' = "checking"
    /\ UNCHANGED <<catchupRun, catchupCalls, storedCursor, cacheAge,
                   background, appCreated, socket, wsUrl, hidden>>
    /\ UNCHANGED startRest

\* clearDataStoreBucketsCache resolves and autoPreloadAllData is called, or
\* it rejects: the handler's catch block creates the app and nothing else.
BucketsCleared ==
    /\ startPc = "clear"
    /\ \E rejects \in BOOLEAN :
         IF rejects
         THEN /\ startPc' = "failed"
              /\ appCreated' = TRUE
              /\ UNCHANGED preload
         ELSE /\ startPc' = "preload"
              /\ preload' = "checking"
              /\ UNCHANGED appCreated
    /\ UNCHANGED <<catchupRun, catchupCalls, storedCursor, cacheAge,
                   background, socket, wsUrl, hidden>>
    /\ UNCHANGED startRest

\* autoPreloadAllData after checkAllDataCache: a cache with records is
\* used as it is, and one older than 30 minutes sets off the incremental
\* load with setTimeout(..., 100); without a cache parallelShardedLoad is
\* awaited.
CacheChecked ==
    /\ preload = "checking"
    /\ IF cacheAge = "none"
       THEN /\ preload' = "loading"
            /\ UNCHANGED background
       ELSE /\ preload' = "done"
            /\ background' = IF cacheAge = "old" THEN "scheduled" ELSE background
    /\ UNCHANGED <<startPc, catchupRun, catchupCalls, storedCursor, cacheAge,
                   appCreated, socket, wsUrl, hidden>>
    /\ UNCHANGED startRest

\* parallelShardedLoad resolves, or it rejects and fallbackLoadAll is
\* awaited; fallbackLoadAll resolves, or it rejects and autoPreloadAllData
\* throws.
DataLoaded ==
    /\ preload \in {"loading", "fallback"}
    /\ \E rejects \in BOOLEAN :
         /\ preload' = IF ~rejects THEN "done"
                       ELSE IF preload = "loading" THEN "fallback"
                       ELSE "thrown"
         /\ cacheAge' = IF rejects THEN cacheAge ELSE "fresh"
    /\ UNCHANGED <<startPc, catchupRun, catchupCalls, storedCursor,
                   background, appCreated, socket, wsUrl, hidden>>
    /\ UNCHANGED startRest

\* await dataPreloader.autoPreloadAllData() is over: the handler creates
\* the app and hands initWebSocket to requestIdleCallback (or setTimeout);
\* if the preload threw, the catch block creates the app and nothing else.
PreloadReturns ==
    /\ startPc = "preload"
    /\ preload \in {"done", "thrown"}
    /\ startPc' = IF preload = "done" THEN "scheduled" ELSE "failed"
    /\ appCreated' = TRUE
    /\ UNCHANGED <<catchupRun, catchupCalls, storedCursor, cacheAge, preload,
                   background, socket, wsUrl, hidden>>
    /\ UNCHANGED startRest

\* initWebSocket runs: wsSyncManager.connect(), which does nothing without
\* a URL.
initWebSocket ==
    /\ startPc = "scheduled"
    /\ startPc' = "started"
    /\ socket' = IF wsUrl THEN "connecting" ELSE socket
    /\ UNCHANGED <<catchupRun, catchupCalls, storedCursor, cacheAge, preload,
                   background, appCreated, wsUrl, hidden>>
    /\ UNCHANGED startRest

\* onopen -> handleOpen: flags, onConnectionChange, startHeartbeat.
SocketOpens ==
    /\ socket = "connecting"
    /\ socket' = "open"
    /\ UNCHANGED <<startPc, catchupRun, catchupCalls, storedCursor, cacheAge,
                   preload, background, appCreated, wsUrl, hidden>>
    /\ UNCHANGED startRest

\* The socket closes (a failed attempt or a lost connection).
SocketCloses ==
    /\ socket \in {"connecting", "open"}
    /\ socket' = "closed"
    /\ UNCHANGED <<startPc, catchupRun, catchupCalls, storedCursor, cacheAge,
                   preload, background, appCreated, wsUrl, hidden>>
    /\ UNCHANGED startRest

\* The reconnect timer fires: connect().
SocketReconnects ==
    /\ socket = "closed"
    /\ socket' = "connecting"
    /\ UNCHANGED <<startPc, catchupRun, catchupCalls, storedCursor, cacheAge,
                   preload, background, appCreated, wsUrl, hidden>>
    /\ UNCHANGED startRest

\* The timer of the incremental load fires, and later the load ends.
BackgroundLoad ==
    /\ background \in {"scheduled", "running"}
    /\ background' = IF background = "scheduled" THEN "running" ELSE "done"
    /\ UNCHANGED <<startPc, catchupRun, catchupCalls, storedCursor, cacheAge,
                   preload, appCreated, socket, wsUrl, hidden>>
    /\ UNCHANGED startRest

\* visibilitychange with document.hidden: savePageLeaveTime().
PageHidden ==
    /\ ~hidden
    /\ hidden' = TRUE
    /\ UNCHANGED <<startPc, catchupRun, catchupCalls, storedCursor, cacheAge,
                   preload, background, appCreated, socket, wsUrl>>
    /\ UNCHANGED startRest

\* visibilitychange with the page visible again:
\* this.checkAndPerformCatchup(), not awaited.
PageVisible ==
    /\ hidden
    /\ catchupRun[2].pc \in {"none", "returned"}
    /\ catchupCalls < MaxCalls
    /\ hidden' = FALSE
    /\ callCatchup(2)
    /\ UNCHANGED <<startPc, storedCursor, cacheAge, preload, background,
                   appCreated, socket, wsUrl>>
    /\ UNCHANGED startRest

NextStart ==
    \/ DOMContentLoaded
    \/ \E r \in StartRuns : CursorRead(r)
    \/ \E r \in StartRuns : CatchupAnswered(r)
    \/ \E r \in StartRuns : CatchupWritten(r)
    \/ \E r \in StartRuns : CatchupSaved(r)
    \/ CatchupReturns
    \/ BucketsCleared
    \/ CacheChecked
    \/ DataLoaded
    \/ PreloadReturns
    \/ initWebSocket
    \/ SocketOpens
    \/ SocketCloses
    \/ SocketReconnects
    \/ BackgroundLoad
    \/ PageHidden
    \/ PageVisible

ExtOff == KeysOff /\ ReloadOff /\ NormOff /\ PageOff /\ StartOff

\* ------------------------------------------------------ specifications
\* The bulk load on its own: store, metadata and socket of a fresh page.
PipeOff == InitPipe /\ variant = "v11"
SyncOff == InitSync /\ meta = NoMeta

Init == InitPipe /\ SyncOff /\ InitWs /\ ApiOff /\ GenOff /\ IncOff /\ ExtOff

Next ==
    \/ RegisterPartitions
    \/ ClearAllData
    \/ StartWorkers
    \/ \E w \in DW : DownloadReturn(w)
    \/ \E w \in DW : DownloadResume(w)
    \/ DownloadsJoined
    \/ \E w \in PW : ParseWake(w)
    \/ ParseJoined
    \/ \E w \in SW : StorageWake(w)
    \/ \E w \in SW : StoreReturn(w)
    \/ \E w \in SW : StoreThrow(w)
    \/ SaveMetadata

Spec == Init /\ [][Next]_vars

InitSyncSpec == PipeOff /\ InitSync /\ InitWs /\ ApiOff /\ GenOff /\ IncOff /\ ExtOff
CatchupSpec == InitSyncSpec /\ [][NextCatchup]_vars
StoreSpec == InitSyncSpec /\ [][NextStore]_vars

\* Catch-up where the page keeps taking steps: every startup, response and
\* transaction that can happen does happen.
FairCatchupSpec == CatchupSpec /\ WF_vars(NextCatchup)

\* The socket life cycle.
InitWsSpec == PipeOff /\ SyncOff /\ InitWs /\ ApiOff /\ GenOff /\ IncOff /\ ExtOff
WsSpec == InitWsSpec /\ [][NextWs]_vars

\* The records query against every table.
InitApiSpec == PipeOff /\ SyncOff /\ InitWs /\ InitApi /\ GenOff /\ IncOff /\ ExtOff
ApiSpec == InitApiSpec /\ [][NextApi]_vars

\* The shard generator on every interval.
InitGenSpec == PipeOff /\ SyncOff /\ InitWs /\ ApiOff /\ InitGen /\ IncOff /\ ExtOff
GenSpec == InitGenSpec /\ [][NextGen]_vars

\* The incremental load.
InitIncSpec == PipeOff /\ SyncOff /\ InitWs /\ ApiOff /\ GenOff /\ InitInc /\ ExtOff
IncSpec == InitIncSpec /\ [][NextInc]_vars

\* Every write path of the store, for every shape of the records' id field.
InitKeySpec == PipeOff /\ SyncOff /\ InitWs /\ ApiOff /\ GenOff /\ IncOff
               /\ InitKeys /\ ReloadOff /\ NormOff /\ PageOff /\ StartOff
KeySpec == InitKeySpec /\ [][NextKeys]_vars

\* Page loads and forced refreshes, one after the other.
InitReloadSpec == PipeOff /\ SyncOff /\ InitWs /\ ApiOff /\ GenOff /\ IncOff
                  /\ KeysOff /\ InitReload /\ NormOff /\ PageOff /\ StartOff
ReloadSpec == InitReloadSpec /\ [][NextReload]_vars

\* preprocessRecords on every shard response.
InitNormSpec == PipeOff /\ SyncOff /\ InitWs /\ ApiOff /\ GenOff /\ IncOff
                /\ KeysOff /\ ReloadOff /\ InitNorm /\ PageOff /\ StartOff
NormSpec == InitNormSpec /\ [][NextNorm]_vars

\* The paginated load against the records endpoint, for every table; every
\* request is taken to be answered or to fail.
InitPageSpec == PipeOff /\ SyncOff /\ InitWs /\ InitApi /\ GenOff /\ IncOff
                /\ KeysOff /\ ReloadOff /\ NormOff /\ InitPage /\ StartOff
PageSpec == InitPageSpec /\ [][NextPage]_vars
FairPageSpec == PageSpec /\ WF_vars(NextPage)

\* A page start, first or repeated, with the tab hidden and shown again at
\* any moment.
InitStartSpec == PipeOff /\ SyncOff /\ InitWs /\ ApiOff /\ GenOff /\ IncOff
                 /\ KeysOff /\ ReloadOff /\ NormOff /\ PageOff /\ InitStart
StartSpec == InitStartSpec /\ [][NextStart]_vars

\* The event loop runs a ready task whenever there is one, and every fetch,
\* store call and timer is taken to complete: some step that changes the
\* state is eventually taken as long as one is possible.
Fairness == WF_vars(Next)

FairSpec == Spec /\ Fairness

\* ================================================================ claims

\* C1: at most one storage worker at a time is inside a
\* storePartitionedBatch call for any given partition.
C1_PartitionMutex ==
    \A w1 \in SW : \A w2 \in SW :
        (w1 # w2 /\ sw[w1].pc = "store" /\ sw[w2].pc = "store")
            => sw[w1].part # sw[w2].part

\* Two workers store at once while the partition of the first still has
\* queued records: the second one passed over a locked partition with work.
C1_Witness ==
    \E w1 \in SW : \E w2 \in SW :
        /\ w1 # w2
        /\ sw[w1].pc = "store" /\ sw[w2].pc = "store"
        /\ taskQueues[sw[w1].part] # <<>>
        /\ variant = "v11"

ShardRecords(i) == {RecId(i, k) : k \in 1..shardCount[i]}
Range(s) == {s[k] : k \in 1..Len(s)}

\* C2: when every shard fetch and every store call succeeded, at return
\* totalLoaded and the saved totalCount equal the sum of the shard record
\* counts, and every fetched record is stored exactly once.
C2_PipelineComplete ==
    (mainPc = "done" /\ fetchFailed = {} /\ storeFailed = 0) =>
        /\ \A i \in Shards : shardCount[i] >= 0
        /\ totalLoaded = SumTo(shardCount, NumShards)
        /\ metaTotal = totalLoaded
        /\ \A i \in Shards : /\ Len(stored[i]) = shardCount[i]
                              /\ Range(stored[i]) = ShardRecords(i)

C2_Witness ==
    /\ mainPc = "done" /\ fetchFailed = {} /\ storeFailed = 0
    /\ \A i \in Shards : shardCount[i] = MaxShardSize
    /\ totalLoaded = NumShards * MaxShardSize

AllQueuesEmpty ==
    /\ \A p \in Partitions : taskQueues[p] = <<>> /\ rawQueues[p] = <<>>
    /\ \A w \in SW : sw[w].pc = "done"
    /\ \A w \in DW : dl[w].pc \in {"done", "off"}

\* C10: under fair scheduling parallelShardedLoad returns, and at return
\* every queue is empty and every worker has stopped, failures included.
\* A worker that has stopped saw its upstream stage complete and no queued work.
StopOnlyWhenDrained ==
    /\ \A w \in SW : sw[w].pc = "done" =>
            Upstream /\ ~hasTasksInQueues(taskQueues)
    /\ \A w \in PW : pw[w] = "done" => downloadComplete /\ ~hasRawData(rawQueues)

C10_Terminates ==
    /\ <>[](mainPc = "done" /\ AllQueuesEmpty)
    /\ []StopOnlyWhenDrained

C10_Witness ==
    /\ mainPc = "done" /\ AllQueuesEmpty
    /\ fetchFailed # {} /\ storeFailed > 0 /\ totalLoaded > 0

\* C3: once catch-up runs have saved their cursor and no run is under way,
\* the persisted cursor is the largest maxChangeLogId that any of these
\* runs was answered with (bulk reloads aside).
C3_CursorIsMax ==
    (anySuccess /\ ~reloaded /\ \A r \in Runs : run[r].pc = "idle")
        => getLastChangeLogId(meta) = maxReturned

\* C4: no step of catch-up, push handling or bulk reload lowers the
\* persisted cursor.
C4_CursorMonotone ==
    [][getLastChangeLogId(meta)' >= getLastChangeLogId(meta)]_vars

\* C5: once a write has been accepted, the aggregates cached before it read
\* as absent: getStatistics and loadDataStoreBuckets return no entry.
C5_CachesAbsentAfterWrite ==
    /\ statsStale => ~getStatistics
    /\ bucketStale => ~loadDataStoreBuckets(meta.lastSyncTime)

\* The totalCount the metadata has once the queued transactions have run.
EventualTotal == meta.totalCount + PendingAppends(pendingMeta)

\* C6: putting records that are in the store already, with the payload they
\* have, through updateRecord, batchUpdateRecords, appendData or storeBatch
\* leaves the record set and the metadata total count as they were.
C6_IdempotentUpsert ==
    [][\A R \in SUBSET Ids, v \in Vers :
         ((\A i \in R : recs[i] = v)
            /\ (\/ \E i \in R : R = {i} /\ updateRecord(i, v)
                \/ batchUpdateRecords(R, v)
                \/ appendData(R, v)
                \/ storeBatch(R, v)))
         => (recs' = recs /\ EventualTotal' = EventualTotal)]_vars

C8_ReconnectOnce ==
    (hbTimedOut /\ ws = "closed") => reconnectsSinceTimeout = 1

\* C9: when a reconnect attempt has failed, the next attempt is scheduled.
C9_KeepsTrying ==
    (attempt = "failed" /\ ws = "closed") => reconnectTimer

\* A shard has been fetched: its fetch returned records or failed.
Fetched(i) == shardCount[i] # -1 \/ i \in fetchFailed

\* C11: every shard is claimed by exactly one download worker. No two
\* workers hold the same shard, every shard below the index is held or
\* fetched and none at or above it is, a fetch that ends is the first and
\* only fetch of its shard and is ended by the worker that holds it, and
\* once the download workers are joined every shard has been fetched.
C11_ClaimedOnce ==
    /\ [](/\ \A w1, w2 \in DW :
               (w1 # w2 /\ dl[w1].pc = "fetch" /\ dl[w2].pc = "fetch")
                   => dl[w1].shard # dl[w2].shard
          /\ \A i \in Shards :
               (i <= index) <=> (Fetched(i) \/ \E w \in DW : dl[w].pc = "fetch" /\ dl[w].shard = i)
          /\ \A i \in Shards : \A w \in DW :
               (dl[w].pc = "fetch" /\ dl[w].shard = i) => ~Fetched(i)
          /\ downloadComplete => \A i \in Shards : Fetched(i))
    /\ [][\A i \in Shards :
            (~Fetched(i) /\ Fetched(i)')
                => \E w \in DW : /\ dl[w].pc = "fetch" /\ dl[w].shard = i
                                 /\ dl'[w].pc = "yield"]_vars

\* A worker that came back from an earlier shard has claimed the last shard
\* while another worker is still fetching a different one.
C11_Witness ==
    \E w1, w2 \in DW :
        /\ w1 # w2
        /\ dl[w1].pc = "fetch" /\ dl[w1].shard = NumShards
        /\ dl[w2].pc = "fetch" /\ dl[w2].shard < NumShards
        /\ \E i \in Shards : Fetched(i)

\* Records a shard's fetch returned: none for a failed fetch.
Returned(i) == IF i \in fetchFailed THEN 0 ELSE Max(shardCount[i], 0)

\* C12: a failed shard fetch puts nothing in any queue or partition, the
\* load still returns, and at return (store calls succeeding) every other
\* shard has been fetched and stored whole and the totals are the sum of
\* the records of the shards that were fetched.
C12_FetchFailureContained ==
    /\ [](\A i \in fetchFailed :
            /\ stored[i] = <<>> /\ taskQueues[i] = <<>> /\ rawQueues[i] = <<>>
            /\ \A w \in SW : sw[w].pc = "store" => sw[w].part # i)
    /\ []((mainPc = "done" /\ storeFailed = 0) =>
            /\ \A i \in Shards \ fetchFailed :
                 /\ shardCount[i] >= 0
                 /\ Len(stored[i]) = shardCount[i]
                 /\ Range(stored[i]) = ShardRecords(i)
            /\ totalLoaded = SumTo([i \in Shards |-> Returned(i)], NumShards)
            /\ metaTotal = totalLoaded)
    /\ (fetchFailed # {}) ~> (mainPc = "done")

\* The load returned after the fetch of the first shard failed, with every
\* other shard stored whole.
C12_Witness ==
    /\ mainPc = "done" /\ fetchFailed = {1} /\ storeFailed = 0
    /\ \A i \in Shards \ {1} : Len(stored[i]) = MaxShardSize
    /\ metaTotal = (NumShards - 1) * MaxShardSize

\* C13: a partition is registered before any store call into it begins, and
\* metadata is saved once per run, after every storage worker has stopped,
\* with the total that the run ends with.
C13_RegisterFirstSaveLast ==
    /\ [](/\ \A w \in SW : sw[w].pc = "store" => sw[w].part \in registered
          /\ \A p \in Partitions : stored[p] # <<>> => p \in registered
          /\ metaSaves <= 1
          /\ (metaSaves = 1) <=> (mainPc = "done")
          /\ metaSaves = 1 => metaTotal = totalLoaded
          /\ metaSaves = 0 => metaTotal = -1)
    /\ [][/\ registered # registered' =>
                \A w \in SW : sw[w].pc = "new" /\ sw'[w].pc = "new"
          /\ metaSaves' # metaSaves =>
                /\ \A w \in SW : sw[w].pc = "done"
                /\ metaSaves' = 1
                /\ metaTotal' = totalLoaded]_vars

\* A run has returned: every partition took records, the one save holds the total.
C13_Witness ==
    /\ mainPc = "done" /\ metaSaves = 1
    /\ registered = Partitions
    /\ \A p \in Partitions : stored[p] # <<>>
    /\ metaTotal = SeqSum([p \in Partitions |-> Len(stored[p])])
    /\ storeFailed > 0

\* C14: a catch-up started while the persisted cursor is 0 (or metadata is
\* absent) sends no request, ends at once reporting no new data, and
\* changes neither records, metadata, queued metadata writes nor caches.
C14_FirstLoadSkipsCatchup ==
    [][\A r \in Runs :
          (run[r].pc = "idle" /\ run'[r] # run[r] /\ getLastChangeLogId(meta) = 0)
              => /\ run'[r] = [IdleRun EXCEPT !.kind = "skipped"]
                 /\ UNCHANGED <<recs, meta, pendingMeta, statsCache,
                                bucketCache, statsStale, bucketStale>>]_vars

\* A catch-up was skipped and the metadata entry is still absent.
C14_Witness ==
    /\ \E r \in Runs : run[r].pc = "idle" /\ run[r].kind = "skipped"
    /\ ~meta.present
    /\ serverMax > 1

\* C15: when a catch-up run that was answered with records and
\* maxChangeLogId m ends, the persisted cursor is m, and every returned
\* identity is in the local store (no bulk reload having cleared the store
\* meanwhile).
C15_CatchupApplied ==
    [][\A r \in Runs :
          (run[r].pc = "save" /\ run'[r].pc = "idle")
              => /\ run[r].since > 0 /\ run[r].ids # {}
                 /\ getLastChangeLogId(meta') = run[r].max
                 /\ (reloadPc = "idle" /\ ~reloaded) =>
                        \A i \in run[r].ids : recs'[i] # 0]_vars

\* A run that asked with cursor 1 and was answered with every identity and
\* maxChangeLogId 3 has ended: all identities are stored, the cursor is 3.
C15_Witness ==
    /\ \E r \in Runs : run[r].pc = "idle" /\ run[r].kind = "applied"
    /\ \A r \in Runs : run[r].pc = "idle"
    /\ \A i \in Ids : recs[i] # 0
    /\ getLastChangeLogId(meta) = MaxChangeLogId
    /\ maxReturned = MaxChangeLogId
    /\ ~reloaded /\ reloadPc = "idle"

\* C16: a catch-up answered with an empty record list writes nothing: no
\* batch write or cursor save is started for it, and the step that ends
\* the run leaves the records, the cursor, lastUpdated and lastSyncTime
\* (the whole metadata entry) and the queued metadata writes as they were.
C16_EmptyCatchupNoChange ==
    /\ [](\A r \in Runs : run[r].pc \in {"apply", "save"} => run[r].ids # {})
    /\ [][\A r \in Runs :
            (run[r].pc = "fetch" /\ run'[r].pc = "idle" /\ run'[r].kind = "empty")
                => UNCHANGED <<recs, meta, pendingMeta, statsCache, bucketCache>>]_vars

\* A run ended on an empty answer after an earlier run had stored records
\* and moved the cursor.
C16_Witness ==
    /\ \E r \in Runs : run[r].pc = "idle" /\ run[r].kind = "empty"
    /\ anySuccess
    /\ getLastChangeLogId(meta) > 1
    /\ \E i \in Ids : recs[i] # 0

\* C17: a push delete for an identity that is not stored leaves the record
\* set and the total count as they were, and can be taken whenever a
\* delete can.
C17_DeleteAbsentNoChange ==
    [][\A i \in Ids :
          (deleteRecord(i) /\ recs[i] = 0)
              => /\ recs' = recs
                 /\ meta'.totalCount = meta.totalCount
                 /\ meta'.present = meta.present
                 /\ pendingMeta' = pendingMeta]_vars

\* A write was accepted after statistics were cached, yet there is neither
\* a record nor a metadata entry: a delete on the empty store.
C17_Witness ==
    /\ statsStale
    /\ ~meta.present
    /\ \A i \in Ids : recs[i] = 0
    /\ pendingMeta = <<>>

\* C18: each mutation path writes lastUpdated and lastSyncTime in the step
\* that commits its data: after a step of updateRecord, deleteRecord (on an
\* existing metadata entry), batchUpdateRecords or appendData both
\* timestamps hold the time of the write.
C18_MetadataWithData ==
    [][(\/ \E i \in Ids, v \in Vers : updateRecord(i, v)
        \/ \E i \in Ids : deleteRecord(i) /\ meta.present
        \/ \E R \in SUBSET Ids, v \in Vers : batchUpdateRecords(R, v)
        \/ \E R \in SUBSET Ids, v \in Vers : appendData(R, v))
          => /\ meta'.present
             /\ meta'.lastUpdated = now
             /\ meta'.lastSyncTime = now]_vars

\* C19: a write call that rejects (updateRecord, batchUpdateRecords,
\* appendData) leaves totalCount, lastUpdated and lastSyncTime alone and
\* queues no metadata write, whatever part of its batch was kept.
C19_FailedWriteNoMetadata ==
    [][rejected' # rejected
          => /\ meta' = meta
             /\ pendingMeta' = pendingMeta
             /\ PendingAppends(pendingMeta') = PendingAppends(pendingMeta)]_vars

\* A write call has rejected after an append had counted its records, at a
\* time later than the timestamps the metadata holds.
C19_Witness ==
    /\ rejected > 0
    /\ meta.present /\ meta.totalCount > 0
    /\ meta.lastUpdated < now
    /\ pendingMeta = <<>>

\* The pipeline half of C19 (checked under Spec): a store call that rejects
\* adds nothing to the running total or to the saved total, which count the
\* records of the batches that were stored and nothing else.
C19_PipelineTotal ==
    /\ [](/\ totalLoaded = SumTo([p \in Partitions |-> Len(stored[p])], NumShards)
          /\ metaSaves = 1 => metaTotal = totalLoaded)
    /\ [][storeFailed' # storeFailed
            => /\ totalLoaded' = totalLoaded
               /\ stored' = stored
               /\ metaTotal' = metaTotal]_vars

C19_PipelineWitness ==
    /\ mainPc = "done" /\ storeFailed > 0
    /\ metaTotal = totalLoaded /\ totalLoaded > 0

\* C20: every persisted record is in exactly one partition, the one of its
\* own start_time, whichever path wrote it: what a partition holds belongs
\* to that quarter, no record is in two partitions, and a record that
\* catch-up or a push wrote is in the partition of its start_time.
C20_PartitionByStartTime ==
    /\ \A p \in Partitions : \A k \in 1..Len(stored[p]) :
            partitionId(stored[p][k]) = p
    /\ \A p1, p2 \in Partitions :
            p1 # p2 => Range(stored[p1]) \cap Range(stored[p2]) = {}
    /\ \A i \in Ids : recs[i] # 0 => i \in Range(stored[partitionId(i)])

\* The pipeline half of C20 (holds under Spec): the download worker routes
\* by shard.partitionId, and that is the quarter of every record the shard's
\* request returns.
C20_PipelineRouting ==
    /\ \A p \in Partitions :
         /\ \A k \in 1..Len(stored[p]) : partitionId(stored[p][k]) = p
         /\ \A k \in 1..Len(taskQueues[p]) : partitionId(taskQueues[p][k]) = p
         /\ \A k \in 1..Len(rawQueues[p]) : partitionId(rawQueues[p][k]) = p
    /\ \A p1, p2 \in Partitions :
            p1 # p2 => Range(stored[p1]) \cap Range(stored[p2]) = {}

\* C21: no background task of the sync manager lets an exception escape,
\* and a failed attempt is retried by the task that owns it: while the
\* manager holds itself to be reconnecting and its socket is closed, the
\* reconnect timer is pending.
C21_ContainedAndRetried ==
    /\ ~escaped
    /\ (isReconnecting /\ wsRef /\ ws = "closed") => reconnectTimer

\* The containment half of C21: no exception leaves a handler.
C21_NoEscape == ~escaped

\* A push message has failed on an open connection that goes on working.
C21_NoEscapeWitness ==
    /\ failedMessages > 0
    /\ ws = "open" /\ isConnected /\ heartbeatInterval
    /\ missedHeartbeats > 0

\* C22: the time-range query with no_limit=true returns every record whose
\* start_time lies in the requested range in one response.
C22_WholeRange ==
    (/\ request.sent /\ request.no_limit
     /\ request.startDate # 0 /\ request.endDate # 0
     /\ request.page = 0 /\ request.limit = 0)
        => \A t \in Times :
             response.records[t] =
                IF request.startDate <= t /\ t <= request.endDate
                THEN table[t] ELSE 0

\* C23: for every startDate < endDate the shards of
\* generateYearQuarterShards cover the whole interval: every instant of
\* [startDate, endDate] lies in the range of some shard, and every quarter
\* that intersects the interval has a shard.
C23_ShardsCoverInterval ==
    generated =>
        \A t \in Dates :
            (NotAfter(startDate, t) /\ NotAfter(t, endDate)) =>
                /\ \E k \in 1..Len(quarterShards) :
                     /\ NotAfter(quarterShards[k].start, t)
                     /\ NotAfter(t, quarterShards[k].end)
                /\ \E k \in 1..Len(quarterShards) :
                     quarterShards[k].partitionId = quarterId(t.m)

\* The generator on an interval whose two ends are equally far into their
\* quarters and whose start day exists in every month covers it.
C23_AlignedCovered ==
    /\ generated
    /\ startDate = Date(1, 15, 1) /\ endDate = Date(7, 15, 1)
    /\ Len(quarterShards) = 3

\* The partitions in which some storage worker is inside a store call.
HeldLocks == {sw[w].part : w \in {x \in SW : sw[x].pc = "store"}}

\* C24: a partition lock taken by a storage worker is always released, also
\* when the store call throws: a partition is locked only while a worker is
\* inside a store call on it, every locked partition is unlocked later,
\* every queue with records is emptied later, and when parallelShardedLoad
\* returns no partition is locked.
C24_LockReleased ==
    /\ [](lockedPartitions = HeldLocks)
    /\ [](mainPc = "done" => lockedPartitions = {})
    /\ \A p \in Partitions :
         [](p \in lockedPartitions => <>(p \notin lockedPartitions))
    /\ \A p \in Partitions :
         [](taskQueues[p] # <<>> => <>(taskQueues[p] = <<>>))

\* The load has returned with no lock held although a store call threw on
\* a partition whose other batch was stored.
C24_Witness ==
    /\ mainPc = "done" /\ lockedPartitions = {}
    /\ storeFailed > 0
    /\ \E p \in Partitions :
         /\ shardCount[p] = MaxShardSize
         /\ stored[p] # <<>> /\ Len(stored[p]) < shardCount[p]

\* C25: starting from an empty local store, once the bulk load has
\* completed the persisted cursor does not stay at its initial value
\* forever, so that a later startup runs the catch-up instead of skipping it.
C25_CursorLeavesInitial ==
    (meta = NoMeta) =>
        [](reloaded => <>(~isFirstLoad(getLastChangeLogId(meta))))

\* What the code does instead: from an empty local store the cursor reads
\* as 0 in every state, and no startup sends a catch-up request.
C25_CursorStaysInitial ==
    (meta = NoMeta) =>
        [](/\ isFirstLoad(getLastChangeLogId(meta))
           /\ \A r \in Runs : run[r].pc = "idle")

\* A startup after a completed bulk load has skipped the catch-up.
C25_SkippedAfterLoad ==
    /\ reloaded /\ reloadPc = "idle"
    /\ meta.present /\ meta.totalCount > 0
    /\ \E r \in Runs : run[r].kind = "skipped"

\* C26: in every quiescent state (no write in flight) the metadata
\* totalCount equals the number of records in the local store.
C26_TotalCountIsRecordCount ==
    (/\ pendingMeta = <<>>
     /\ reloadPc = "idle"
     /\ \A r \in Runs : run[r].pc = "idle")
        => meta.totalCount = Cardinality({i \in Ids : recs[i] # 0})

\* C27: a storage worker holds a partition lock for one batch only: under
\* one lock it splices at most one batch off the partition queue.
C27_OneBatchPerLock == \A w \in SW : sw[w].batches <= 1

\* The three-stage pipeline keeps to one batch per lock.
C27_OneBatchPerLockP2 == (variant = "p2") => C27_OneBatchPerLock

\* A worker of the three-stage pipeline stores the second batch of a
\* partition, under a lock of its own.
C27_WitnessP2 ==
    /\ variant = "p2"
    /\ \E w \in SW : /\ sw[w].pc = "store"
                     /\ sw[w].batches = 1
                     /\ stored[sw[w].part] # <<>>

\* C28: a storage worker never waits for one partition's lock. A scan
\* passes over a locked partition and takes a later one that has queued
\* records and is unlocked, so a worker ends a scan without a batch only
\* when every partition with queued records is locked by another worker.
C28_NeverWaitsForLock ==
    [][\A w \in SW :
         ((StorageWake(w) \/ StoreReturn(w) \/ StoreThrow(w))
            /\ sw'[w].pc = "wait")
           => \A p \in Partitions :
                taskQueues'[p] # <<>> => p \in lockedPartitions']_vars

\* Two workers of the three-stage pipeline store into two partitions at
\* once: the second passed over the locked partition of the first, which
\* still has queued records, and took a later one.
C28_Witness ==
    /\ variant = "p2"
    /\ \E w1 \in SW : \E w2 \in SW :
         /\ sw[w1].pc = "store" /\ sw[w2].pc = "store"
         /\ sw[w1].part < sw[w2].part
         /\ taskQueues[sw[w1].part] # <<>>

\* The records of partition p in the order in which they were enqueued.
Enqueued(p) ==
    IF shardCount[p] >= 0 THEN fetchShardData(p, TRUE, shardCount[p]) ELSE <<>>
\* The batch of partition p that is inside a store call.
InFlight(p) ==
    IF \E w \in SW : sw[w].pc = "store" /\ sw[w].part = p
    THEN LET holder == CHOOSE w \in SW : sw[w].pc = "store" /\ sw[w].part = p
         IN sw[holder].batch
    ELSE <<>>
Position(s, x) == CHOOSE k \in 1..Len(s) : s[k] = x

\* C29: within one partition the batches are taken from the front of the
\* queue and persisted one after the other, so the records of a partition
\* are stored in the order in which they were enqueued: the stored records
\* are in enqueue order, and while no store call has failed the stored
\* records, the batch in flight and the queued records together are the
\* enqueued sequence.
C29_StoredInEnqueueOrder ==
    \A p \in Partitions :
        /\ Range(stored[p]) \subseteq Range(Enqueued(p))
        /\ \A j \in 1..Len(stored[p]) : \A k \in 1..Len(stored[p]) :
             j < k => Position(Enqueued(p), stored[p][j])
                        < Position(Enqueued(p), stored[p][k])
        /\ storeFailed = 0 =>
             stored[p] \o InFlight(p) \o taskQueues[p]
                \o parseRecords(rawQueues[p]) = Enqueued(p)

\* The last batch of a partition is inside a store call after an earlier
\* batch of the same partition has been persisted.
C29_Witness ==
    \E p \in Partitions :
        /\ stored[p] # <<>> /\ InFlight(p) # <<>>
        /\ taskQueues[p] = <<>>
        /\ stored[p] \o InFlight(p) = Enqueued(p)

\* The metadata transactions among the open transactions.
OpenMeta == {k \in 1..Len(incTx) : incTx[k].kind = "meta"}

\* C30: the metadata entry is written only after an entire stage or change
\* application has completed and never by two workers concurrently, also
\* in the incremental load: the metadata writes that are open at one time
\* belong to one worker, and when the metadata write of a worker runs no
\* other worker is inside an appendData call.
C30_MetadataAfterStage ==
    /\ [](\A j \in OpenMeta : \A k \in OpenMeta :
             incTx[j].worker = incTx[k].worker)
    /\ [][IncMetaWrite =>
            \A w \in IW \ {Head(incTx).worker} : isw[w].pc # "append"]_vars

\* What the incremental load keeps: the transactions run one at a time in
\* the order in which they were opened, so once the load has returned and
\* none is open, totalCount is the number of records that the appendData
\* calls have put.
C30_NoLostUpdate ==
    (incPc = "done" /\ incTx = <<>>)
        => incMeta = incStored /\ incMeta = incTotalLoaded

\* The load has returned after several appendData calls, one of which
\* rejected.
C30_NoLostUpdateWitness ==
    /\ incPc = "done" /\ incTx = <<>>
    /\ incMeta >= MinBatch + 1
    /\ incFailed > 0

\* C31: a partition is created lazily, the first time a record needing it
\* is written, and is never pre-declared: when a bulk load without failures
\* has returned, the registered partitions are exactly the partitions that
\* received records.
C31_PartitionsLazy ==
    (mainPc = "done" /\ fetchFailed = {} /\ storeFailed = 0)
        => registered = {p \in Partitions : stored[p] # <<>>}

\* Entries of the store that hold a record of plan_id p.
EntriesOf(p) == {k \in Keys : allData[k] # NoEntry /\ allData[k].plan_id = p}

C32_DeleteRemoves ==
    [][\A p \in PlanIds : PushDelete(p) => EntriesOf(p)' = {}]_vars

\* C33: a bulk reload of a cache that holds records, in which every shard
\* fetch fails, leaves the records and the metadata that were cached before
\* it as they were.
C33_FailedReloadKeepsCache ==
    (allFailed /\ atStart.records > 0)
        => (cacheRecords = atStart.records /\ cacheMeta = atStart.meta)

\* C34: after disconnect() and until connect() is called again, no reconnect
\* is scheduled, no new socket is opened and isConnected stays false,
\* whatever close event the old socket delivers.
C34_DisconnectIsFinal ==
    disconnected =>
        /\ ~reconnectTimer
        /\ ws \notin {"connecting", "open"}
        /\ ~isConnected

\* How often a record occurs in a response.
Occurrences(s, x) == Cardinality({k \in 1..Len(s) : s[k] = x})
Given(s) == [k \in 1..Len(s) |-> [plan_id |-> s[k].plan_id, start_time |-> s[k].start_time]]

\* C35: preprocessRecords returns the records it was given, as many and each
\* as often as it came, each with the timestamp derived from its
\* start_time, in ascending order of that timestamp.
C35_NormalizeKeepsAndSorts ==
    preprocessed =>
        /\ Len(processed) = Len(rawRecords)
        /\ \A r \in RawRecords :
               Occurrences(Given(processed), r) = Occurrences(rawRecords, r)
        /\ \A k \in 1..Len(processed) :
               processed[k].timestamp = parseTimeToTimestamp(processed[k].start_time)
        /\ \A k \in 1..(Len(processed) - 1) :
               processed[k].timestamp <= processed[k + 1].timestamp

\* A response in the server's descending order with two records of one
\* instant has been normalized.
C35_Witness ==
    /\ preprocessed
    /\ Len(rawRecords) = 3
    /\ parseTimeToTimestamp(rawRecords[1].start_time) = 2
    /\ parseTimeToTimestamp(rawRecords[2].start_time) = 2
    /\ parseTimeToTimestamp(rawRecords[3].start_time) = 1
    /\ rawRecords[1] # rawRecords[2]
    /\ processed[1] = withTimestamp(rawRecords[3])

\* C36: each shard of generateYearQuarterShards lies within one calendar
\* quarter, its partitionId names that year and quarter, its start is not
\* after its end, and no two shards share a partitionId or overlap in time.
C36_ShardsAreQuarters ==
    generated =>
        /\ \A k \in 1..Len(quarterShards) :
               LET shard == quarterShards[k]
               IN /\ quarterId(shard.start.m) = shard.partitionId
                  /\ quarterId(shard.end.m) = shard.partitionId
                  /\ NotAfter(shard.start, shard.end)
        /\ \A j, k \in 1..Len(quarterShards) :
               j < k =>
                   /\ quarterShards[j].partitionId # quarterShards[k].partitionId
                   /\ Before(quarterShards[j].end, quarterShards[k].start)

\* Three shards were generated for an interval that begins and ends inside
\* a quarter: the first starts at startDate, the last ends at endDate.
C36_Witness ==
    /\ generated
    /\ Len(quarterShards) = 3
    /\ startDate.d = 15 /\ startDate.h = 1
    /\ endDate.d = 15
    /\ quarterShards[1].start = startDate
    /\ quarterShards[3].end = endDate

\* C37: a bucket cache entry saved before the most recent accepted write
\* (the write's metadata update is later than the entry's timestamp) is not
\* served by loadDataStoreBuckets to a caller that passes the current
\* lastSyncTime of the metadata.
C37_StaleBucketsNotServed ==
    (bucketStale /\ bucketCache.timestamp < meta.lastUpdated)
        => ~loadDataStoreBuckets(meta.lastSyncTime)

C38_NeverAnEmptyPage ==
    SumTo(table, NumTimes) > 0 =>
        (consecutiveEmptyPages = 0 /\ pagePc # "returned")

C38_ManyPages ==
    /\ SumTo(table, NumTimes) > 0
    /\ pagePc = "loop"
    /\ currentPage > MaxPages
    /\ allData_length > SumTo(table, NumTimes)

\* C39: on page start the handler's catch-up call has returned (and, with
\* new data, the bucket cache clear is over) before autoPreloadAllData is
\* called; connect() is issued only after autoPreloadAllData has returned
\* and the app was created; and the step in which the socket opens starts
\* no call of checkAndPerformCatchup.
C39_StartOrder ==
    /\ [](preload # "none" =>
            /\ catchupRun[1].pc = "returned"
            /\ startPc # "clear")
    /\ [](socket # "none" =>
            /\ preload = "done"
            /\ appCreated)
    /\ [][(socket = "connecting" /\ socket' = "open") =>
            (catchupCalls' = catchupCalls /\ catchupRun' = catchupRun)]_vars

C39_Witness ==
    /\ socket = "open"
    /\ catchupRun[1].hasNewData
    /\ catchupCalls = 1

====
